---- MODULE Spec2Model ----
(***************************************************************************)
(* The relay server of Cyberdrive (Cyberdrive_Server/main_server.py): one  *)
(* process-wide ServerState object, and the Socket.IO event handlers that  *)
(* read and write it.                                                      *)
(*                                                                         *)
(* The server is created with async_mode='threading' (main_server.py:35):  *)
(* every handler runs in a thread of its own and no handler takes a lock,  *)
(* so the handlers of different events interleave between any two accesses *)
(* of the shared state.  Each handler is therefore a small sequential      *)
(* program: a thread of the pool th holds the handler's position pc (named *)
(* after the source line it is about to execute), the session request.sid  *)
(* it runs for, the event's payload and its local values.  One step of the *)
(* model is one access of ServerState by one handler, together with the    *)
(* emits that follow it before the next access.  A handler that has not    *)
(* yet made its first access cannot be told from one whose event has not   *)
(* yet arrived, so the first access of a handler is the step that starts   *)
(* it; it occupies a thread of the pool only between its first access and  *)
(* its return.                                                             *)
(*                                                                         *)
(* The timestamps of the emitted events and the log lines are left out: no *)
(* handler reads them back.  The timestamp that handle_vehicle_telemetry   *)
(* stores in last_telemetry is the one value Now.                          *)
(*                                                                         *)
(* Four specifications share the actions of the relay: Spec (every handler *)
(* but telemetry, whose two variables no other handler touches),           *)
(* SpecTelemetry (every handler), SpecOpen (registration and commands of   *)
(* two sessions that have already connected) and SpecQuick (quick_command  *)
(* with every tag of its vocabulary).  SpecCamera adds the camera handler. *)
(*                                                                         *)
(* The other programs of the repository have specifications of their own:  *)
(* SpecCodec (the wire format of telemetry lines and commands, strings as  *)
(* sequences of characters), SpecDevice (the serial and WiFi adapters and  *)
(* the bridge's serial reader), SpecManager (VehicleManager.send_command   *)
(* and the limits), SpecProfiles (the two loaders of vehicle profiles),    *)
(* SpecForward (the relay forwarding commands to the bridge                *)
(* web_client.py), SpecReconnect (the bridge losing its link and           *)
(* connecting again, with fair delivery of events), SpecConnect            *)
(* (VehicleManager.connect_vehicle and disconnect_vehicle) and SpecWifi    *)
(* (WiFiAdapter.receive_telemetry over what its socket delivers).          *)
(***************************************************************************)
EXTENDS Integers, Sequences, FiniteSets, TLC

(* ------------------------------ bounds -------------------------------- *)

\* Socket.IO sessions that ever connect (session ids are never reused).
NumSessions == 3

\* Handlers that may be between their first state access and their return
\* at the same time.
MaxThreads == 2

\* Handlers started in one behaviour (every event counts, connect and
\* disconnect included); it caps commands_sent and web_clients.
MaxEvents == 5

Sids == 1..NumSessions
Threads == 1..MaxThreads

(* --------------------------- program values --------------------------- *)

\* Python's None as the value of usb_client_sid and as the room of an emit:
\* socketio.emit(..., room=None) addresses every connected client.
NoSid == 0

\* Python's None as the value of current_vehicle_id and of data.get(key).
NoVehicleId == "None"

\* data.get(key, default) of a payload that may lack the key.
Get(data, key, default) == IF key \in DOMAIN data THEN data[key] ELSE default

\* A payload with no keys.
NoData == [k \in {} |-> 0]

\* The defaults of handle_send_command's data.get calls.
DefaultDirection == 1500
DefaultThrottle == 1500
DefaultMode == "manual"

\* Python's None as the value of last_camera_frame and of data.get('frame').
NoFrame == "None"

\* datetime.now().isoformat(), the time of the server's clock.
Now == "now"

\* The messages of the error events.
NoBridge == "Client USB non connecte"
NoVehicle == "Vehicule non connecte"
UnknownCommand == "Commande inconnue"

\* A variant of the mapping with left and right exchanged.
commands_left_right_exchanged ==
    [forward  |-> [direction |-> 1500, throttle |-> 1650],
     backward |-> [direction |-> 1500, throttle |-> 1350],
     left     |-> [direction |-> 1700, throttle |-> 1500],
     right    |-> [direction |-> 1300, throttle |-> 1500],
     stop     |-> [direction |-> 1500, throttle |-> 1500],
     center   |-> [direction |-> 1500, throttle |-> 1500]]

\* The mapping of handle_quick_command.
commands ==
    [forward  |-> [direction |-> 1500, throttle |-> 1650],
     backward |-> [direction |-> 1500, throttle |-> 1350],
     left     |-> [direction |-> 1300, throttle |-> 1500],
     right    |-> [direction |-> 1700, throttle |-> 1500],
     stop     |-> [direction |-> 1500, throttle |-> 1500],
     center   |-> [direction |-> 1500, throttle |-> 1500]]

(* ------------------------------- inputs ------------------------------- *)

\* Payloads of send_command: every key present and in range; a direction
\* below 1000 with the other keys missing.
CommandInputs ==
    { [direction |-> 1700, throttle |-> 1650, mode |-> "auto"],
      [direction |-> 999] }

\* Payloads of quick_command: a tag of the vocabulary and one outside it.
QuickInputs == { [command |-> "left"], [command |-> "spin"] }

\* Payloads of quick_command: every tag of the vocabulary, one outside it,
\* and a payload without the key.
QuickTagInputs ==
    { [command |-> tag] : tag \in DOMAIN commands \cup {"spin"} } \cup { NoData }

\* Payloads of vehicle_connected and select_vehicle.
VehicleInputs == { [vehicle_id |-> "rc_car_001"] }

\* Payloads of vehicle_telemetry: the bridge's direction and its own
\* timestamp; a direction and a distance.
TelemetryInputs ==
    { [direction |-> 1600, timestamp |-> "bridge"],
      [direction |-> 1400, distance_cm |-> 30] }

\* Payloads of camera_frame: two frames, and a payload without the key.
CameraInputs == { [frame |-> "frame_a"], [frame |-> "frame_b"], NoData }

\* Payloads of usb_client_register.
RegisterInputs == { [port |-> "/dev/ttyUSB0"] }

(* ------------------------------- state -------------------------------- *)

VARIABLES
    \* ServerState
    web_clients,
    usb_client_connected,
    usb_client_sid,
    vehicle_connected,
    current_vehicle_id,
    commands_sent,
    last_telemetry,
    telemetry_received,
    last_camera_frame,
    \* Socket.IO: "new" (never connected), "connecting" (handle_connect is
    \* running), "open", "closed" (handle_disconnect has started)
    sessions,
    \* the handlers between their first state access and their return
    th,
    \* the events emitted by the last step, in order; each has the event
    \* name, the room it is addressed to (a session id, or NoSid for every
    \* connected client) and its payload
    emitted,
    \* history: the event whose handler made the last step
    handler,
    \* history: a disconnect handler has cleared the bridge registration and
    \* no usb_client_register handler has written to it since
    dropped,
    \* history: vehicle_connected was true when that disconnect handler
    \* cleared usb_client_connected
    dropped_vehicle,
    \* history: the disconnect handlers that found
    \* request.sid == state.usb_client_sid
    bridge_disconnects,
    \* history: the usb_client_disconnected broadcasts emitted
    disconnect_broadcasts,
    \* history: the vehicle_command events emitted (line 298)
    forwarded,
    \* history: the vehicle_telemetry messages merged into last_telemetry
    \* (line 236)
    ingested,
    \* history: the session of the latest usb_client_register handler that
    \* has stored its request.sid (line 179)
    registrant,
    \* history: the sessions that had stored their request.sid before the
    \* latest one did
    earlier,
    \* history: the payload of the latest vehicle_command emitted (line 298)
    last_forwarded,
    \* history: the command of the latest handler that has stored
    \* commands_sent (line 300)
    last_counted,
    \* history: the number of handlers started so far
    started,
    \* the line last read from the vehicle's transport
    line,
    \* the command at hand: a VehicleCommand, or the dict of a vehicle_command
    command,
    \* the result of the last VehicleTelemetry.from_esp32_string
    telem,
    \* the result of the last VehicleCommand.to_esp32_string
    esp32_string,
    \* web_client.py: serial_connection ("open", "closed" for None or not
    \* is_open, "failing" for an open port whose write raises), sio.connected,
    \* the session of the connection, whether usb_registration_ok has been
    \* handled on it, and the sessions of the connections that were lost
    bridge,
    \* the strings the bridge wrote to serial_connection in its last step
    serial_written,
    \* the events the bridge emitted to the relay in its last step
    sio_emitted,
    \* history: the functions applied to the line and the command at hand
    applied,
    \* SerialAdapter: _connected, _last_telemetry and the value returned by
    \* the last receive_telemetry
    serial_adapter,
    \* WiFiAdapter: _connected, _last_telemetry, _buffer and the value
    \* returned by the last receive_telemetry
    wifi_adapter,
    \* history: the reads of the adapters and of the bridge, and the faults
    \* of their transports, so far
    device_steps,
    \* the events of the bridge's sessions in the order in which the relay
    \* starts their handlers
    wire,
    \* history: the vehicle_command events the bridge has handled
    received,
    \* VehicleManager: _vehicles, _adapters, _active_vehicle_id, and the
    \* result of the last send_command with what the adapter transmitted
    manager,
    \* the files of config/vehicles, in the order glob yields them
    config_dir,
    \* the list load_vehicle_configs returns
    vehicles

telemetry == <<last_telemetry, telemetry_received>>
state == <<web_clients, usb_client_connected, usb_client_sid, vehicle_connected,
           current_vehicle_id, commands_sent, telemetry, last_camera_frame>>

\* What the relay's handlers never write: the state of the other programs.
codec == <<line, command, telem, esp32_string, applied>>
usb == <<bridge, serial_written, sio_emitted, wire, received>>
adapters == <<serial_adapter, wifi_adapter, device_steps>>
profiles == <<manager, config_dir, vehicles>>
outside == <<codec, usb, adapters, profiles>>
marks == <<dropped, dropped_vehicle, bridge_disconnects, disconnect_broadcasts>>
tally == <<forwarded, ingested, registrant, earlier, last_forwarded, last_counted>>
history == <<marks, tally, started>>
\* What the other programs never write: the relay.
relay == <<state, sessions, th, emitted, handler, history>>
vars == <<relay, outside>>

\* No telemetry, no command: Python's None.
NoTelemetry == [none |-> TRUE]
NoCommand == [none |-> TRUE]

\* The adapters once connect() has succeeded, before any line has arrived.
InitAdapters ==
    /\ serial_adapter = [connected |-> TRUE, last_telemetry |-> NoTelemetry,
                         returned |-> NoTelemetry]
    /\ wifi_adapter = [connected |-> TRUE, last_telemetry |-> NoTelemetry,
                       buffer |-> <<>>, returned |-> NoTelemetry]
    /\ device_steps = 0

\* The bridge once it has opened its serial port and connected.
InitUsb ==
    /\ bridge = [serial |-> "open", connected |-> TRUE, sid |-> NoSid,
                 acknowledged |-> FALSE, gone |-> {}]
    /\ serial_written = <<>>
    /\ sio_emitted = <<>>
    /\ wire = <<>>
    /\ received = 0

\* No line and no command at hand.
InitNoCodec ==
    /\ line = <<>>
    /\ command = NoCommand
    /\ telem = NoTelemetry
    /\ esp32_string = <<>>
    /\ applied = {}

\* VehicleManager.__init__, an empty directory and no list.
InitProfiles ==
    /\ manager = [vehicles |-> <<>>, adapters |-> <<>>, active |-> NoVehicleId,
                  result |-> FALSE, transmitted |-> <<>>]
    /\ config_dir = <<>>
    /\ vehicles = <<>>

\* The other programs before they have read or written anything.
InitOutside == InitNoCodec /\ InitUsb /\ InitAdapters /\ InitProfiles

\* A thread that runs no handler.
Idle == [pc |-> "idle", sid |-> NoSid, data |-> NoData, tmp |-> 0, flag |-> FALSE]

\* ServerState.__init__
InitRelay ==
    /\ web_clients = 0
    /\ usb_client_connected = FALSE
    /\ usb_client_sid = NoSid
    /\ vehicle_connected = FALSE
    /\ current_vehicle_id = NoVehicleId
    /\ commands_sent = 0
    /\ last_telemetry = [direction |-> 1500, throttle |-> 1500, distance_cm |-> -1,
                         battery_voltage |-> 0, rx_active |-> FALSE,
                         obstacle_detected |-> FALSE, mode |-> "unknown",
                         timestamp |-> "None"]
    /\ telemetry_received = 0
    /\ last_camera_frame = NoFrame
    /\ sessions = [s \in Sids |-> "new"]
    /\ th = [t \in Threads |-> Idle]
    /\ emitted = <<>>
    /\ handler = ""
    /\ dropped = FALSE
    /\ dropped_vehicle = FALSE
    /\ bridge_disconnects = 0
    /\ disconnect_broadcasts = 0
    /\ forwarded = 0
    /\ ingested = 0
    /\ registrant = NoSid
    /\ earlier = {}
    /\ last_forwarded = NoData
    /\ last_counted = NoData
    /\ started = 0

\* ServerState.__init__, and the other programs at rest.
Init == InitRelay /\ InitOutside

(* ------------------------------ plumbing ------------------------------ *)

\* An event emitted to a room.
Event(ev, room, payload) == [ev |-> ev, room |-> room, payload |-> payload]

\* An event emitted to every connected client but one (include_self=False
\* makes skip_sid the session of the request).
EventExcept(ev, skip, payload) ==
    [ev |-> ev, room |-> NoSid, skip |-> skip, payload |-> payload]

\* Session s has connected: its events reach their handlers.  A handler may
\* make its first access after the session's disconnect handler has run.
Sent(s) == sessions[s] \in {"open", "closed"}

\* The handler of an event of session s goes on to pc after its first
\* access, in the first free thread of the pool.  A thread keeps of
\* request.sid and of the payload what the rest of its handler reads.
Continue(s, pc, data, tmp, flag) ==
    \E t \in Threads :
        /\ th[t].pc = "idle"
        /\ \A u \in Threads : u < t => th[u].pc # "idle"
        /\ th' = [th EXCEPT ![t] = [pc |-> pc, sid |-> s, data |-> data,
                                   tmp |-> tmp, flag |-> flag]]

\* A handler starts, within the bound on the events of a behaviour.
Starting ==
    /\ started < MaxEvents
    /\ started' = started + 1

\* Thread t moves to pc.
Goto(t, pc) == th' = [th EXCEPT ![t].pc = pc]

\* Thread t's handler returns.
Return(t) == th' = [th EXCEPT ![t] = Idle]

\* The state once sessions 1 and 2 have connected (handle_connect has run
\* for each, before any other event); started counts the handlers from
\* there on.
InitOpen ==
    /\ web_clients = 0
    /\ usb_client_connected = FALSE
    /\ usb_client_sid = NoSid
    /\ vehicle_connected = FALSE
    /\ current_vehicle_id = NoVehicleId
    /\ commands_sent = 0
    /\ last_telemetry = [direction |-> 1500, throttle |-> 1500, distance_cm |-> -1,
                         battery_voltage |-> 0, rx_active |-> FALSE,
                         obstacle_detected |-> FALSE, mode |-> "unknown",
                         timestamp |-> "None"]
    /\ telemetry_received = 0
    /\ last_camera_frame = NoFrame
    /\ sessions = [s \in Sids |-> IF s <= 2 THEN "open" ELSE "new"]
    /\ th = [t \in Threads |-> Idle]
    /\ emitted = << Event("server_status", 2,
                          [status |-> "connected", usb_client_online |-> FALSE,
                           vehicle_online |-> FALSE]) >>
    /\ handler = "connect"
    /\ dropped = FALSE
    /\ dropped_vehicle = FALSE
    /\ bridge_disconnects = 0
    /\ disconnect_broadcasts = 0
    /\ forwarded = 0
    /\ ingested = 0
    /\ registrant = NoSid
    /\ earlier = {}
    /\ last_forwarded = NoData
    /\ last_counted = NoData
    /\ started = 0
    /\ InitOutside

(* ---------------------- connect (lines 137-146) ----------------------- *)

\* line 144: 'usb_client_online': state.usb_client_connected, for the next
\* session that has never connected
handle_connect_144(s) ==
    /\ handler' = "connect"
    /\ UNCHANGED <<last_camera_frame, outside>>
    /\ Starting
    /\ sessions[s] = "new"
    /\ \A r \in Sids : r < s => sessions[r] # "new"
    /\ Continue(s, "connect_145", NoData, 0, usb_client_connected)
    /\ sessions' = [sessions EXCEPT ![s] = "connecting"]
    /\ emitted' = <<>>
    /\ UNCHANGED <<state, marks, tally>>

\* lines 145, 141: 'vehicle_online': state.vehicle_connected; emit to the
\* connecting session; the session is open once the handler has returned.
handle_connect_145(t) ==
    /\ handler' = "connect"
    /\ UNCHANGED <<last_camera_frame, outside>>
    /\ th[t].pc = "connect_145"
    /\ emitted' = << Event("server_status", th[t].sid,
                           [status |-> "connected",
                            usb_client_online |-> th[t].flag,
                            vehicle_online |-> vehicle_connected]) >>
    /\ sessions' = [sessions EXCEPT ![th[t].sid] = "open"]
    /\ Return(t)
    /\ UNCHANGED <<state, history>>

(* --------------------- disconnect (lines 148-166) --------------------- *)

\* A variant of line 154 that takes every session that ever registered for
\* the bridge.
handle_disconnect_154_any_registrant(s) ==
    /\ handler' = "disconnect"
    /\ UNCHANGED <<last_camera_frame, outside>>
    /\ Starting
    /\ sessions[s] = "open"
    /\ sessions' = [sessions EXCEPT ![s] = "closed"]
    /\ IF s = usb_client_sid \/ s \in earlier
         THEN /\ Continue(NoSid, "disconnect_156", NoData, 0, FALSE)
              /\ bridge_disconnects' = bridge_disconnects + 1
         ELSE /\ Continue(NoSid, "disconnect_164", NoData, 0, FALSE)
              /\ UNCHANGED bridge_disconnects
    /\ emitted' = <<>>
    /\ UNCHANGED <<state, dropped, dropped_vehicle, disconnect_broadcasts>>
    /\ UNCHANGED tally

\* line 154: if request.sid == state.usb_client_sid, for an open session
handle_disconnect_154(s) ==
    /\ handler' = "disconnect"
    /\ UNCHANGED <<last_camera_frame, outside>>
    /\ Starting
    /\ sessions[s] = "open"
    /\ sessions' = [sessions EXCEPT ![s] = "closed"]
    /\ IF s = usb_client_sid
         THEN /\ Continue(NoSid, "disconnect_156", NoData, 0, FALSE)
              /\ bridge_disconnects' = bridge_disconnects + 1
         ELSE /\ Continue(NoSid, "disconnect_164", NoData, 0, FALSE)
              /\ UNCHANGED bridge_disconnects
    /\ emitted' = <<>>
    /\ UNCHANGED <<state, dropped, dropped_vehicle, disconnect_broadcasts>>
    /\ UNCHANGED tally

\* A variant of line 156 that leaves usb_client_connected set.
handle_disconnect_156_keeps_flag(t) ==
    /\ handler' = "disconnect"
    /\ UNCHANGED <<last_camera_frame, outside>>
    /\ th[t].pc = "disconnect_156"
    /\ dropped' = TRUE
    /\ dropped_vehicle' = vehicle_connected
    /\ UNCHANGED <<bridge_disconnects, disconnect_broadcasts, started>>
    /\ Goto(t, "disconnect_157")
    /\ emitted' = <<>>
    /\ UNCHANGED <<state, sessions>>
    /\ UNCHANGED tally

\* line 156: state.usb_client_connected = False
handle_disconnect_156(t) ==
    /\ handler' = "disconnect"
    /\ UNCHANGED <<last_camera_frame, outside>>
    /\ th[t].pc = "disconnect_156"
    /\ usb_client_connected' = FALSE
    /\ dropped' = TRUE
    /\ dropped_vehicle' = vehicle_connected
    /\ UNCHANGED <<bridge_disconnects, disconnect_broadcasts, started>>
    /\ Goto(t, "disconnect_157")
    /\ emitted' = <<>>
    /\ UNCHANGED <<web_clients, usb_client_sid, vehicle_connected, current_vehicle_id,
                   commands_sent, sessions>>
    /\ UNCHANGED telemetry
    /\ UNCHANGED tally

\* line 157: state.usb_client_sid = None
handle_disconnect_157(t) ==
    /\ handler' = "disconnect"
    /\ UNCHANGED <<last_camera_frame, outside>>
    /\ th[t].pc = "disconnect_157"
    /\ usb_client_sid' = NoSid
    /\ Goto(t, "disconnect_158")
    /\ emitted' = <<>>
    /\ UNCHANGED <<web_clients, usb_client_connected, vehicle_connected,
                   current_vehicle_id, commands_sent, sessions, history>>
    /\ UNCHANGED telemetry

\* A variant of lines 158-161 without the socketio.emit.
handle_disconnect_158_silent(t) ==
    /\ handler' = "disconnect"
    /\ UNCHANGED <<last_camera_frame, outside>>
    /\ th[t].pc = "disconnect_158"
    /\ vehicle_connected' = FALSE
    /\ emitted' = <<>>
    /\ Return(t)
    /\ UNCHANGED <<web_clients, usb_client_connected, usb_client_sid,
                   current_vehicle_id, commands_sent, sessions, history>>
    /\ UNCHANGED telemetry

\* lines 158-161: state.vehicle_connected = False; socketio.emit(
\* 'usb_client_disconnected', ...) to every client
handle_disconnect_158(t) ==
    /\ handler' = "disconnect"
    /\ UNCHANGED <<last_camera_frame, outside>>
    /\ th[t].pc = "disconnect_158"
    /\ vehicle_connected' = FALSE
    /\ emitted' = << Event("usb_client_disconnected", NoSid, NoData) >>
    /\ disconnect_broadcasts' = disconnect_broadcasts + 1
    /\ Return(t)
    /\ UNCHANGED <<web_clients, usb_client_connected, usb_client_sid,
                   current_vehicle_id, commands_sent, sessions, dropped,
                   dropped_vehicle, bridge_disconnects, started>>
    /\ UNCHANGED telemetry
    /\ UNCHANGED tally

\* line 164, the read of state.web_clients - 1
handle_disconnect_164(t) ==
    /\ handler' = "disconnect"
    /\ UNCHANGED <<last_camera_frame, outside>>
    /\ th[t].pc = "disconnect_164"
    /\ th' = [th EXCEPT ![t].tmp = web_clients - 1, ![t].pc = "disconnect_164_store"]
    /\ emitted' = <<>>
    /\ UNCHANGED <<state, sessions, history>>

\* A variant of line 164 that clears vehicle_connected as well.
handle_disconnect_164_store_clears_vehicle(t) ==
    /\ handler' = "disconnect"
    /\ UNCHANGED <<last_camera_frame, outside>>
    /\ th[t].pc = "disconnect_164_store"
    /\ web_clients' = (IF th[t].tmp > 0 THEN th[t].tmp ELSE 0)
    /\ vehicle_connected' = FALSE
    /\ Return(t)
    /\ emitted' = <<>>
    /\ UNCHANGED <<usb_client_connected, usb_client_sid, current_vehicle_id,
                   commands_sent, telemetry, sessions, history>>

\* line 164, the store state.web_clients = max(0, ...)
handle_disconnect_164_store(t) ==
    /\ handler' = "disconnect"
    /\ UNCHANGED <<last_camera_frame, outside>>
    /\ th[t].pc = "disconnect_164_store"
    /\ web_clients' = (IF th[t].tmp > 0 THEN th[t].tmp ELSE 0)
    /\ Return(t)
    /\ emitted' = <<>>
    /\ UNCHANGED <<usb_client_connected, usb_client_sid, vehicle_connected,
                   current_vehicle_id, commands_sent, sessions, history>>
    /\ UNCHANGED telemetry

(* ----------------- usb_client_register (lines 170-194) ---------------- *)

\* line 178: state.usb_client_connected = True
handle_usb_client_register_178(s, data) ==
    /\ handler' = "usb_client_register"
    /\ UNCHANGED <<last_camera_frame, outside>>
    /\ Sent(s)
    /\ usb_client_connected' = TRUE
    /\ dropped' = FALSE
    /\ dropped_vehicle' = FALSE
    /\ UNCHANGED <<bridge_disconnects, disconnect_broadcasts>>
    /\ Starting
    /\ Continue(s, "register_179", data, 0, FALSE)
    /\ emitted' = <<>>
    /\ UNCHANGED <<web_clients, usb_client_sid, vehicle_connected, current_vehicle_id,
                   commands_sent, sessions>>
    /\ UNCHANGED telemetry
    /\ UNCHANGED tally

\* A variant of lines 179-194 that keeps a bridge that is already
\* registered.
handle_usb_client_register_179_first_wins(t) ==
    /\ handler' = "usb_client_register"
    /\ UNCHANGED <<last_camera_frame, outside>>
    /\ th[t].pc = "register_179"
    /\ usb_client_sid' = (IF usb_client_sid = NoSid THEN th[t].sid ELSE usb_client_sid)
    /\ dropped' = FALSE
    /\ dropped_vehicle' = FALSE
    /\ UNCHANGED <<bridge_disconnects, disconnect_broadcasts, started>>
    /\ emitted' = << Event("usb_registration_ok", th[t].sid,
                           [message |-> "USB client registered successfully"]),
                     Event("usb_client_connected", NoSid,
                           [port |-> Get(th[t].data, "port", "unknown")]) >>
    /\ Return(t)
    /\ registrant' = th[t].sid
    /\ earlier' = (earlier \cup {registrant}) \ {th[t].sid, NoSid}
    /\ UNCHANGED <<web_clients, usb_client_connected, vehicle_connected,
                   current_vehicle_id, commands_sent, sessions>>
    /\ UNCHANGED telemetry
    /\ UNCHANGED <<forwarded, ingested, last_forwarded, last_counted>>

\* A variant of lines 179-194 that starts from a vehicle not connected.
handle_usb_client_register_179_resets_vehicle(t) ==
    /\ handler' = "usb_client_register"
    /\ UNCHANGED <<last_camera_frame, outside>>
    /\ th[t].pc = "register_179"
    /\ usb_client_sid' = th[t].sid
    /\ dropped' = FALSE
    /\ dropped_vehicle' = FALSE
    /\ UNCHANGED <<bridge_disconnects, disconnect_broadcasts, started>>
    /\ emitted' = << Event("usb_registration_ok", th[t].sid,
                           [message |-> "USB client registered successfully"]),
                     Event("usb_client_connected", NoSid,
                           [port |-> Get(th[t].data, "port", "unknown")]) >>
    /\ Return(t)
    /\ registrant' = th[t].sid
    /\ earlier' = (earlier \cup {registrant}) \ {th[t].sid, NoSid}
    /\ vehicle_connected' = FALSE
    /\ UNCHANGED <<web_clients, usb_client_connected, current_vehicle_id,
                   commands_sent, sessions>>
    /\ UNCHANGED telemetry
    /\ UNCHANGED <<forwarded, ingested, last_forwarded, last_counted>>

\* lines 179-194: state.usb_client_sid = request.sid; emit
\* 'usb_registration_ok' to the sender, 'usb_client_connected' to everyone
handle_usb_client_register_179(t) ==
    /\ handler' = "usb_client_register"
    /\ UNCHANGED <<last_camera_frame, outside>>
    /\ th[t].pc = "register_179"
    /\ usb_client_sid' = th[t].sid
    /\ dropped' = FALSE
    /\ dropped_vehicle' = FALSE
    /\ UNCHANGED <<bridge_disconnects, disconnect_broadcasts, started>>
    /\ emitted' = << Event("usb_registration_ok", th[t].sid,
                           [message |-> "USB client registered successfully"]),
                     Event("usb_client_connected", NoSid,
                           [port |-> Get(th[t].data, "port", "unknown")]) >>
    /\ Return(t)
    /\ registrant' = th[t].sid
    /\ earlier' = (earlier \cup {registrant}) \ {th[t].sid, NoSid}
    /\ UNCHANGED <<web_clients, usb_client_connected, vehicle_connected,
                   current_vehicle_id, commands_sent, sessions>>
    /\ UNCHANGED telemetry
    /\ UNCHANGED <<forwarded, ingested, last_forwarded, last_counted>>

(* ------------------ vehicle_connected (lines 196-211) ----------------- *)

\* line 201: state.vehicle_connected = True
handle_vehicle_connected_201(s, data) ==
    /\ handler' = "vehicle_connected"
    /\ UNCHANGED <<last_camera_frame, outside>>
    /\ Starting
    /\ Sent(s)
    /\ vehicle_connected' = TRUE
    /\ Continue(NoSid, "vehicle_connected_202", data, 0, FALSE)
    /\ emitted' = <<>>
    /\ UNCHANGED <<web_clients, usb_client_connected, usb_client_sid,
                   current_vehicle_id, commands_sent, sessions, marks, tally>>
    /\ UNCHANGED telemetry

\* line 202: state.current_vehicle_id = data.get('vehicle_id', 'unknown')
handle_vehicle_connected_202(t) ==
    /\ handler' = "vehicle_connected"
    /\ UNCHANGED <<last_camera_frame, outside>>
    /\ th[t].pc = "vehicle_connected_202"
    /\ current_vehicle_id' = Get(th[t].data, "vehicle_id", "unknown")
    /\ th' = [th EXCEPT ![t].pc = "vehicle_connected_207", ![t].data = NoData]
    /\ emitted' = <<>>
    /\ UNCHANGED <<web_clients, usb_client_connected, usb_client_sid,
                   vehicle_connected, commands_sent, sessions, history>>
    /\ UNCHANGED telemetry

\* lines 207-211: socketio.emit('vehicle_status', {'connected': True,
\* 'vehicle_id': state.current_vehicle_id}) to every client
handle_vehicle_connected_207(t) ==
    /\ handler' = "vehicle_connected"
    /\ UNCHANGED <<last_camera_frame, outside>>
    /\ th[t].pc = "vehicle_connected_207"
    /\ emitted' = << Event("vehicle_status", NoSid,
                           [connected |-> TRUE, vehicle_id |-> current_vehicle_id]) >>
    /\ Return(t)
    /\ UNCHANGED <<state, sessions, history>>

(* ---------------- vehicle_disconnected (lines 213-224) ---------------- *)

\* A variant of lines 219-224 that only emits.
handle_vehicle_disconnected_keeps_flag(s) ==
    /\ handler' = "vehicle_disconnected"
    /\ UNCHANGED <<last_camera_frame, outside>>
    /\ Starting
    /\ Sent(s)
    /\ emitted' = << Event("vehicle_status", NoSid, [connected |-> FALSE]) >>
    /\ UNCHANGED <<web_clients, usb_client_connected, usb_client_sid, vehicle_connected,
                   current_vehicle_id, commands_sent, sessions, th, marks, tally>>
    /\ UNCHANGED telemetry

\* lines 219-224: state.vehicle_connected = False; emit 'vehicle_status'
handle_vehicle_disconnected(s) ==
    /\ handler' = "vehicle_disconnected"
    /\ UNCHANGED <<last_camera_frame, outside>>
    /\ Starting
    /\ Sent(s)
    /\ vehicle_connected' = FALSE
    /\ emitted' = << Event("vehicle_status", NoSid, [connected |-> FALSE]) >>
    /\ UNCHANGED <<web_clients, usb_client_connected, usb_client_sid,
                   current_vehicle_id, commands_sent, sessions, th, marks, tally>>
    /\ UNCHANGED telemetry

(* ----------------- vehicle_telemetry (lines 226-244) ------------------ *)

\* dict.update(data): the keys of data are overwritten or added, the others
\* are kept.
Update(d, data) ==
    [k \in DOMAIN d \cup DOMAIN data |-> IF k \in DOMAIN data THEN data[k] ELSE d[k]]

\* line 236: state.last_telemetry.update(data); the thread keeps what the
\* dict holds once it has updated it
handle_vehicle_telemetry_236(s, data) ==
    /\ handler' = "vehicle_telemetry"
    /\ UNCHANGED <<last_camera_frame, outside>>
    /\ Starting
    /\ Sent(s)
    /\ last_telemetry' = Update(last_telemetry, data)
    /\ ingested' = ingested + 1
    /\ Continue(NoSid, "telemetry_237", Update(last_telemetry, data), 0, FALSE)
    /\ emitted' = <<>>
    /\ UNCHANGED <<web_clients, usb_client_connected, usb_client_sid, vehicle_connected,
                   current_vehicle_id, commands_sent, telemetry_received, sessions,
                   marks, forwarded, registrant, earlier, last_forwarded,
                   last_counted>>

\* line 237: state.last_telemetry['timestamp'] = datetime.now().isoformat()
handle_vehicle_telemetry_237(t) ==
    /\ handler' = "vehicle_telemetry"
    /\ UNCHANGED <<last_camera_frame, outside>>
    /\ th[t].pc = "telemetry_237"
    /\ last_telemetry' = [last_telemetry EXCEPT !.timestamp = Now]
    /\ Goto(t, "telemetry_238")
    /\ emitted' = <<>>
    /\ UNCHANGED <<web_clients, usb_client_connected, usb_client_sid, vehicle_connected,
                   current_vehicle_id, commands_sent, telemetry_received, sessions,
                   history>>

\* line 238, the read of state.telemetry_received += 1
handle_vehicle_telemetry_238(t) ==
    /\ handler' = "vehicle_telemetry"
    /\ UNCHANGED <<last_camera_frame, outside>>
    /\ th[t].pc = "telemetry_238"
    /\ th' = [th EXCEPT ![t].tmp = telemetry_received + 1, ![t].pc = "telemetry_238_store"]
    /\ emitted' = <<>>
    /\ UNCHANGED <<state, sessions, history>>

\* line 238, the store of state.telemetry_received += 1
handle_vehicle_telemetry_238_store(t) ==
    /\ handler' = "vehicle_telemetry"
    /\ UNCHANGED <<last_camera_frame, outside>>
    /\ th[t].pc = "telemetry_238_store"
    /\ telemetry_received' = th[t].tmp
    /\ th' = [th EXCEPT ![t].tmp = 0, ![t].pc = "telemetry_241"]
    /\ emitted' = <<>>
    /\ UNCHANGED <<web_clients, usb_client_connected, usb_client_sid, vehicle_connected,
                   current_vehicle_id, commands_sent, last_telemetry, sessions,
                   history>>

\* line 241: socketio.emit('telemetry_update', state.last_telemetry,
\* broadcast=True) to every client
handle_vehicle_telemetry_241(t) ==
    /\ handler' = "vehicle_telemetry"
    /\ UNCHANGED <<last_camera_frame, outside>>
    /\ th[t].pc = "telemetry_241"
    /\ emitted' = << Event("telemetry_update", NoSid, last_telemetry) >>
    /\ Return(t)
    /\ UNCHANGED <<state, sessions, history>>

(* -------------------- camera_frame (lines 246-261) -------------------- *)

\* line 252: state.last_camera_frame = data.get('frame'); the handler keeps
\* its payload
handle_camera_frame_252(s, data) ==
    /\ handler' = "camera_frame"
    /\ Starting
    /\ Sent(s)
    /\ last_camera_frame' = Get(data, "frame", NoFrame)
    /\ Continue(s, "camera_256", data, 0, FALSE)
    /\ emitted' = <<>>
    /\ UNCHANGED <<web_clients, usb_client_connected, usb_client_sid, vehicle_connected,
                   current_vehicle_id, commands_sent, telemetry, sessions, marks,
                   tally, outside>>

\* lines 255-258: socketio.emit('camera_update', {'frame':
\* state.last_camera_frame, ...}, broadcast=True, include_self=False)
handle_camera_frame_256(t) ==
    /\ handler' = "camera_frame"
    /\ th[t].pc = "camera_256"
    /\ emitted' = << EventExcept("camera_update", th[t].sid,
                                 [frame |-> last_camera_frame]) >>
    /\ Return(t)
    /\ UNCHANGED <<state, sessions, history, outside>>

(* ------------------ web_client_hello (lines 265-270) ------------------ *)

\* line 269, the read of state.web_clients += 1
handle_web_client_hello_269(s) ==
    /\ handler' = "web_client_hello"
    /\ UNCHANGED <<last_camera_frame, outside>>
    /\ Starting
    /\ Sent(s)
    /\ Continue(NoSid, "hello_269_store", NoData, web_clients + 1, FALSE)
    /\ emitted' = <<>>
    /\ UNCHANGED <<state, sessions, marks, tally>>

\* line 269, the store of state.web_clients += 1
handle_web_client_hello_269_store(t) ==
    /\ handler' = "web_client_hello"
    /\ UNCHANGED <<last_camera_frame, outside>>
    /\ th[t].pc = "hello_269_store"
    /\ web_clients' = th[t].tmp
    /\ Return(t)
    /\ emitted' = <<>>
    /\ UNCHANGED <<usb_client_connected, usb_client_sid, vehicle_connected,
                   current_vehicle_id, commands_sent, sessions, history>>
    /\ UNCHANGED telemetry

(* -------------------- send_command (lines 272-307) ------------------- *)

\* lines 290-295: the command built from the request's payload
Command(data) ==
    [direction |-> Get(data, "direction", DefaultDirection),
     throttle  |-> Get(data, "throttle", DefaultThrottle),
     mode      |-> Get(data, "mode", DefaultMode)]

\* A variant of lines 280-282 without the return.
handle_send_command_280_no_return(s, data) ==
    /\ Starting
    /\ emitted' = (IF ~usb_client_connected
                     THEN << Event("error", s, [message |-> NoBridge]) >>
                     ELSE <<>>)
    /\ Continue(s, "send_command_284", data, 0, FALSE)
    /\ UNCHANGED <<state, sessions, marks, tally>>

\* lines 280-282: if not state.usb_client_connected: emit('error'); return
handle_send_command_280(s, data) ==
    /\ Starting
    /\ IF ~usb_client_connected
         THEN /\ emitted' = << Event("error", s, [message |-> NoBridge]) >>
              /\ UNCHANGED th
         ELSE /\ emitted' = <<>>
              /\ Continue(s, "send_command_284", data, 0, FALSE)
    /\ UNCHANGED <<state, sessions, marks, tally>>

\* the send_command event of a session
handle_send_command(s, data) ==
    /\ Sent(s)
    /\ handler' = "send_command"
    /\ UNCHANGED <<last_camera_frame, outside>>
    /\ handle_send_command_280(s, data)

\* A variant of lines 284-286 without the return.
handle_send_command_284_no_return(t) ==
    /\ handler' = "send_command"
    /\ UNCHANGED <<last_camera_frame, outside>>
    /\ th[t].pc = "send_command_284"
    /\ emitted' = (IF ~vehicle_connected
                     THEN << Event("error", th[t].sid, [message |-> NoVehicle]) >>
                     ELSE <<>>)
    /\ Goto(t, "send_command_298")
    /\ UNCHANGED <<state, sessions, history>>

\* lines 284-286: if not state.vehicle_connected: emit('error'); return
handle_send_command_284(t) ==
    /\ handler' = "send_command"
    /\ UNCHANGED <<last_camera_frame, outside>>
    /\ th[t].pc = "send_command_284"
    /\ IF ~vehicle_connected
         THEN /\ emitted' = << Event("error", th[t].sid, [message |-> NoVehicle]) >>
              /\ Return(t)
         ELSE /\ emitted' = <<>>
              /\ Goto(t, "send_command_298")
    /\ UNCHANGED <<state, sessions, history>>

\* lines 290-298: socketio.emit('vehicle_command', command,
\* room=state.usb_client_sid)
handle_send_command_298(t) ==
    /\ handler' = "send_command"
    /\ UNCHANGED <<last_camera_frame, outside>>
    /\ th[t].pc = "send_command_298"
    /\ emitted' = << Event("vehicle_command", usb_client_sid, Command(th[t].data)) >>
    /\ forwarded' = forwarded + 1
    /\ last_forwarded' = Command(th[t].data)
    /\ Goto(t, "send_command_300")
    /\ UNCHANGED <<state, sessions, marks, ingested, registrant, earlier, last_counted, started>>

\* line 300, the read of state.commands_sent += 1
handle_send_command_300(t) ==
    /\ handler' = "send_command"
    /\ UNCHANGED <<last_camera_frame, outside>>
    /\ th[t].pc = "send_command_300"
    /\ th' = [th EXCEPT ![t].tmp = commands_sent + 1, ![t].pc = "send_command_300_store"]
    /\ emitted' = <<>>
    /\ UNCHANGED <<state, sessions, history>>

\* lines 300-303: the store of state.commands_sent += 1; emit('command_sent')
\* to the requester
handle_send_command_300_store(t) ==
    /\ handler' = "send_command"
    /\ UNCHANGED <<last_camera_frame, outside>>
    /\ th[t].pc = "send_command_300_store"
    /\ commands_sent' = th[t].tmp
    /\ emitted' = << Event("command_sent", th[t].sid,
                           [status |-> "ok", command |-> Command(th[t].data)]) >>
    /\ last_counted' = Command(th[t].data)
    /\ Return(t)
    /\ UNCHANGED <<web_clients, usb_client_connected, usb_client_sid,
                   vehicle_connected, current_vehicle_id, sessions, marks,
                   forwarded, ingested, registrant, earlier, last_forwarded,
                   started>>
    /\ UNCHANGED telemetry

(* ------------------- quick_command (lines 309-329) -------------------- *)

\* A variant of lines 314-329 that takes a tag outside the mapping for
\* 'stop'.
handle_quick_command_unknown_stops(s, data) ==
    /\ Sent(s)
    /\ handler' = "quick_command"
    /\ UNCHANGED <<last_camera_frame, outside>>
    /\ LET cmd_type == Get(data, "command", "stop") IN
         IF cmd_type \in DOMAIN commands
           THEN handle_send_command_280(s, commands[cmd_type])
           ELSE handle_send_command_280(s, commands["stop"])

\* lines 314-329: a tag of the mapping calls handle_send_command with the
\* mapped payload; any other tag is an error
handle_quick_command(s, data) ==
    /\ Sent(s)
    /\ handler' = "quick_command"
    /\ UNCHANGED <<last_camera_frame, outside>>
    /\ LET cmd_type == Get(data, "command", "stop") IN
         IF cmd_type \in DOMAIN commands
           THEN handle_send_command_280(s, commands[cmd_type])
           ELSE /\ Starting
                /\ emitted' = << Event("error", s,
                                       [message |-> UnknownCommand, command |-> cmd_type]) >>
                /\ UNCHANGED <<state, sessions, th, marks, tally>>

(* ------------------- select_vehicle (lines 338-352) ------------------- *)

\* lines 343-345: if not state.usb_client_connected: emit('error'); return
handle_select_vehicle_343(s, data) ==
    /\ handler' = "select_vehicle"
    /\ UNCHANGED <<last_camera_frame, outside>>
    /\ Starting
    /\ Sent(s)
    /\ IF ~usb_client_connected
         THEN /\ emitted' = << Event("error", s, [message |-> NoBridge]) >>
              /\ UNCHANGED th
         ELSE /\ emitted' = <<>>
              /\ Continue(NoSid, "select_vehicle_348", data, 0, FALSE)
    /\ UNCHANGED <<state, sessions, marks, tally>>

\* lines 348-350: socketio.emit('connect_vehicle', {'vehicle_id': vehicle_id},
\* room=state.usb_client_sid)
handle_select_vehicle_348(t) ==
    /\ handler' = "select_vehicle"
    /\ UNCHANGED <<last_camera_frame, outside>>
    /\ th[t].pc = "select_vehicle_348"
    /\ emitted' = << Event("connect_vehicle", usb_client_sid,
                           [vehicle_id |-> Get(th[t].data, "vehicle_id", NoVehicleId)]) >>
    /\ Return(t)
    /\ UNCHANGED <<state, sessions, history>>

(* ------------------------- ping (lines 331-334) ----------------------- *)

\* line 334: emit('pong') to the sender
handle_ping(s) ==
    /\ handler' = "ping"
    /\ UNCHANGED <<last_camera_frame, outside>>
    /\ Starting
    /\ Sent(s)
    /\ emitted' = << Event("pong", s, NoData) >>
    /\ UNCHANGED <<state, sessions, th, marks, tally>>

(* --------------------------- specification ---------------------------- *)

\* The handlers of the sessions, the bridge registration, the vehicle flag
\* and the commands.  No handler among them reads or writes last_telemetry
\* or telemetry_received.
Next ==
    \/ \E s \in Sids :
        \/ handle_connect_144(s)
        \/ handle_disconnect_154(s)
        \/ \E data \in RegisterInputs : handle_usb_client_register_178(s, data)
        \/ \E data \in VehicleInputs : handle_vehicle_connected_201(s, data)
        \/ handle_vehicle_disconnected(s)
        \/ handle_web_client_hello_269(s)
        \/ \E data \in CommandInputs : handle_send_command(s, data)
        \/ \E data \in QuickInputs : handle_quick_command(s, data)
        \/ \E data \in VehicleInputs : handle_select_vehicle_343(s, data)
        \/ handle_ping(s)
    \/ \E t \in Threads :
        \/ handle_connect_145(t)
        \/ handle_disconnect_156(t)
        \/ handle_disconnect_157(t)
        \/ handle_disconnect_158(t)
        \/ handle_disconnect_164(t)
        \/ handle_disconnect_164_store(t)
        \/ handle_usb_client_register_179(t)
        \/ handle_vehicle_connected_202(t)
        \/ handle_vehicle_connected_207(t)
        \/ handle_web_client_hello_269_store(t)
        \/ handle_send_command_284(t)
        \/ handle_send_command_298(t)
        \/ handle_send_command_300(t)
        \/ handle_send_command_300_store(t)
        \/ handle_select_vehicle_348(t)

Spec == Init /\ [][Next]_vars

\* Every handler, handle_vehicle_telemetry included.
NextTelemetry ==
    \/ \E s \in Sids :
        \/ handle_connect_144(s)
        \/ handle_disconnect_154(s)
        \/ \E data \in RegisterInputs : handle_usb_client_register_178(s, data)
        \/ \E data \in VehicleInputs : handle_vehicle_connected_201(s, data)
        \/ handle_vehicle_disconnected(s)
        \/ \E data \in TelemetryInputs : handle_vehicle_telemetry_236(s, data)
        \/ handle_web_client_hello_269(s)
        \/ \E data \in CommandInputs : handle_send_command(s, data)
        \/ \E data \in QuickInputs : handle_quick_command(s, data)
        \/ \E data \in VehicleInputs : handle_select_vehicle_343(s, data)
        \/ handle_ping(s)
    \/ \E t \in Threads :
        \/ handle_connect_145(t)
        \/ handle_disconnect_156(t)
        \/ handle_disconnect_157(t)
        \/ handle_disconnect_158(t)
        \/ handle_disconnect_164(t)
        \/ handle_disconnect_164_store(t)
        \/ handle_usb_client_register_179(t)
        \/ handle_vehicle_connected_202(t)
        \/ handle_vehicle_connected_207(t)
        \/ handle_vehicle_telemetry_237(t)
        \/ handle_vehicle_telemetry_238(t)
        \/ handle_vehicle_telemetry_238_store(t)
        \/ handle_vehicle_telemetry_241(t)
        \/ handle_web_client_hello_269_store(t)
        \/ handle_send_command_284(t)
        \/ handle_send_command_298(t)
        \/ handle_send_command_300(t)
        \/ handle_send_command_300_store(t)
        \/ handle_select_vehicle_348(t)

SpecTelemetry == Init /\ [][NextTelemetry]_vars

\* The registration, the vehicle flag and the commands of two connected
\* sessions.
NextOpen ==
    \/ \E s \in Sids :
        \/ handle_disconnect_154(s)
        \/ \E data \in RegisterInputs : handle_usb_client_register_178(s, data)
        \/ \E data \in VehicleInputs : handle_vehicle_connected_201(s, data)
        \/ \E data \in CommandInputs : handle_send_command(s, data)
    \/ \E t \in Threads :
        \/ handle_disconnect_156(t)
        \/ handle_disconnect_157(t)
        \/ handle_disconnect_158(t)
        \/ handle_disconnect_164(t)
        \/ handle_disconnect_164_store(t)
        \/ handle_usb_client_register_179(t)
        \/ handle_vehicle_connected_202(t)
        \/ handle_vehicle_connected_207(t)
        \/ handle_send_command_284(t)
        \/ handle_send_command_298(t)
        \/ handle_send_command_300(t)
        \/ handle_send_command_300_store(t)

SpecOpen == InitOpen /\ [][NextOpen]_vars

\* The sessions, the registration, the vehicle flag and quick_command with
\* every tag.
NextQuick ==
    \/ \E s \in Sids :
        \/ handle_connect_144(s)
        \/ handle_disconnect_154(s)
        \/ \E data \in RegisterInputs : handle_usb_client_register_178(s, data)
        \/ \E data \in VehicleInputs : handle_vehicle_connected_201(s, data)
        \/ \E data \in QuickTagInputs : handle_quick_command(s, data)
    \/ \E t \in Threads :
        \/ handle_connect_145(t)
        \/ handle_disconnect_156(t)
        \/ handle_disconnect_157(t)
        \/ handle_disconnect_158(t)
        \/ handle_disconnect_164(t)
        \/ handle_disconnect_164_store(t)
        \/ handle_usb_client_register_179(t)
        \/ handle_vehicle_connected_202(t)
        \/ handle_vehicle_connected_207(t)
        \/ handle_send_command_284(t)
        \/ handle_send_command_298(t)
        \/ handle_send_command_300(t)
        \/ handle_send_command_300_store(t)

SpecQuick == Init /\ [][NextQuick]_vars


\* The sessions and the camera frames they send.
NextCamera ==
    \/ \E s \in Sids :
        \/ handle_connect_144(s)
        \/ handle_disconnect_154(s)
        \/ \E data \in CameraInputs : handle_camera_frame_252(s, data)
    \/ \E t \in Threads :
        \/ handle_connect_145(t)
        \/ handle_disconnect_164(t)
        \/ handle_disconnect_164_store(t)
        \/ handle_camera_frame_256(t)

SpecCamera == Init /\ [][NextCamera]_vars

(* ===================================================================== *)
(* The wire codec: Cyberdrive_codesource/core/telemetry.py and the        *)
(* bridge's own copy of it in Cyberdrive_Server/web_client.py.            *)
(*                                                                        *)
(* A Python str is the sequence of its characters, so that splitting,     *)
(* stripping, int(), float() and the f-strings are computed as Python     *)
(* computes them.  The lines are over the characters listed below; a      *)
(* float is the exact decimal it denotes, <<digits, places>> with no      *)
(* trailing zero.                                                         *)
(* ===================================================================== *)

Digits == << "0", "1", "2", "3", "4", "5", "6", "7", "8", "9" >>

IsDigit(c) == \E k \in 1..10 : Digits[k] = c

DigitValue(c) == (CHOOSE k \in 1..10 : Digits[k] = c) - 1

\* str.strip() removes these from both ends.
Whitespace == { " ", "\n", "\r", "\t" }

RECURSIVE LStrip(_)
LStrip(s) == IF s # <<>> /\ Head(s) \in Whitespace THEN LStrip(Tail(s)) ELSE s

RECURSIVE RStrip(_)
RStrip(s) ==
    IF s # <<>> /\ s[Len(s)] \in Whitespace THEN RStrip(SubSeq(s, 1, Len(s) - 1)) ELSE s

\* s.strip()
Strip(s) == RStrip(LStrip(s))

\* s.split(c)
RECURSIVE Split(_, _)
Split(s, c) ==
    IF \A i \in DOMAIN s : s[i] # c
      THEN << s >>
      ELSE LET k == CHOOSE i \in DOMAIN s :
                        s[i] = c /\ \A j \in 1..(i - 1) : s[j] # c
           IN  << SubSeq(s, 1, k - 1) >> \o Split(SubSeq(s, k + 1, Len(s)), c)

\* s.startswith(p)
StartsWith(s, p) == Len(s) >= Len(p) /\ SubSeq(s, 1, Len(p)) = p

\* The value of a string of digits.
RECURSIVE Value(_)
Value(s) ==
    IF s = <<>> THEN 0 ELSE 10 * Value(SubSeq(s, 1, Len(s) - 1)) + DigitValue(s[Len(s)])

\* A string without its sign, and the sign.
Unsigned(s) == IF s # <<>> /\ Head(s) \in {"+", "-"} THEN Tail(s) ELSE s
Sign(s) == IF s # <<>> /\ Head(s) = "-" THEN -1 ELSE 1

\* int(s) and float(s) raise ValueError on a string that denotes no number.
ValueError == [error |-> "ValueError"]
Raised(result) == DOMAIN result = {"error"}

\* int(s): surrounding whitespace, an optional sign, one or more digits.
int(s) ==
    LET u == Unsigned(Strip(s))
    IN  IF u # <<>> /\ \A i \in DOMAIN u : IsDigit(u[i])
          THEN [value |-> Sign(Strip(s)) * Value(u)]
          ELSE ValueError

\* The decimal places of a string without its trailing zeros.
RECURSIVE Places(_)
Places(s) ==
    IF s # <<>> /\ s[Len(s)] = "0" THEN Places(SubSeq(s, 1, Len(s) - 1)) ELSE s

\* float(s): surrounding whitespace, an optional sign, digits with at most
\* one point among them and a digit on one side of it at least.
float(s) ==
    LET u == Unsigned(Strip(s))
        parts == Split(u, ".")
        whole == parts[1]
        places == IF Len(parts) = 2 THEN Places(parts[2]) ELSE <<>>
    IN  IF /\ Len(parts) <= 2
           /\ \A i \in DOMAIN u : IsDigit(u[i]) \/ u[i] = "."
           /\ \E i \in DOMAIN u : IsDigit(u[i])
          THEN [value |-> << Sign(Strip(s)) * Value(whole \o places), Len(places) >>]
          ELSE ValueError

\* f"{n}" of an int
RECURSIVE Decimal(_)
Decimal(n) ==
    IF n < 0 THEN << "-" >> \o Decimal(-n)
    ELSE IF n < 10 THEN << Digits[n + 1] >>
    ELSE Append(Decimal(n \div 10), Digits[(n % 10) + 1])

\* The tags of the lines.
TELEM == << "T", "E", "L", "E", "M" >>
ACK == << "A", "C", "K" >>
HEARTBEAT == << "H", "E", "A", "R", "T", "B", "E", "A", "T" >>
CMD == << "C", "M", "D" >>
MOVE == << "M", "O", "V", "E" >>

\* ":".join(tokens)
RECURSIVE Join(_)
Join(tokens) ==
    IF Len(tokens) = 1 THEN tokens[1]
    ELSE tokens[1] \o << ":" >> \o Join(Tail(tokens))

\* A variant of the parser that takes the receiver flag to be set by 1 only.
from_esp32_string_rx_is_one(data) ==
    LET parts == Split(Strip(data), ":")
    IN  IF Len(parts) >= 6 /\ parts[1] = TELEM
          THEN LET direction == int(parts[2])
                   throttle == int(parts[3])
                   distance_cm == int(parts[4])
                   battery_voltage == float(parts[5])
                   rx == int(parts[6])
               IN  IF Raised(direction) \/ Raised(throttle) \/ Raised(distance_cm)
                        \/ Raised(battery_voltage) \/ Raised(rx)
                     THEN ValueError
                     ELSE [timestamp |-> Now,
                           direction |-> direction.value,
                           throttle |-> throttle.value,
                           distance_cm |-> distance_cm.value,
                           battery_voltage |-> battery_voltage.value,
                           rx_active |-> (rx.value = 1),
                           obstacle_detected |-> FALSE,
                           mode |-> "unknown"]
          ELSE ValueError

\* VehicleTelemetry.from_esp32_string: the telemetry of a line, or
\* ValueError.  The IMU fields keep their default None and are left out.
from_esp32_string(data) ==
    LET parts == Split(Strip(data), ":")
    IN  IF Len(parts) >= 6 /\ parts[1] = TELEM
          THEN LET direction == int(parts[2])
                   throttle == int(parts[3])
                   distance_cm == int(parts[4])
                   battery_voltage == float(parts[5])
                   rx == int(parts[6])
               IN  IF Raised(direction) \/ Raised(throttle) \/ Raised(distance_cm)
                        \/ Raised(battery_voltage) \/ Raised(rx)
                     THEN ValueError
                     ELSE [timestamp |-> Now,
                           direction |-> direction.value,
                           throttle |-> throttle.value,
                           distance_cm |-> distance_cm.value,
                           battery_voltage |-> battery_voltage.value,
                           rx_active |-> (rx.value # 0),
                           obstacle_detected |-> FALSE,
                           mode |-> "unknown"]
          ELSE ValueError

\* The events parse_and_send_telemetry emits for a line: one
\* vehicle_telemetry when the line parses and the client is connected, none
\* otherwise (the exception of a failed conversion is caught and logged).
parse_and_send_telemetry(telem_string, connected) ==
    LET parts == Split(Strip(telem_string), ":")
    IN  IF Len(parts) >= 6 /\ parts[1] = TELEM
          THEN LET direction == int(parts[2])
                   throttle == int(parts[3])
                   distance_cm == int(parts[4])
                   battery_voltage == float(parts[5])
                   rx == int(parts[6])
               IN  IF Raised(direction) \/ Raised(throttle) \/ Raised(distance_cm)
                        \/ Raised(battery_voltage) \/ Raised(rx)
                     THEN <<>>
                     ELSE IF connected
                       THEN << [ev |-> "vehicle_telemetry",
                                payload |-> [direction |-> direction.value,
                                             throttle |-> throttle.value,
                                             distance_cm |-> distance_cm.value,
                                             battery_voltage |-> battery_voltage.value,
                                             rx_active |-> (rx.value # 0),
                                             timestamp |-> Now]] >>
                       ELSE <<>>
          ELSE <<>>

\* VehicleCommand.to_esp32_string
to_esp32_string(self) ==
    CMD \o << ":" >> \o MOVE \o << ":" >> \o Decimal(self.direction) \o << ":" >>
        \o Decimal(self.throttle) \o << "\n" >>

\* A variant of the bridge's formatter that clamps both values to 1000..2000.
cmd_str_clamped(data) ==
    LET Clamp(n) == IF n < 1000 THEN 1000 ELSE IF n > 2000 THEN 2000 ELSE n
    IN  CMD \o << ":" >> \o MOVE \o << ":" >>
            \o Decimal(Clamp(Get(data, "direction", 1500))) \o << ":" >>
            \o Decimal(Clamp(Get(data, "throttle", 1500))) \o << "\n" >>

\* The string write_to_serial makes of a dict.
cmd_str(data) ==
    CMD \o << ":" >> \o MOVE \o << ":" >> \o Decimal(Get(data, "direction", 1500))
        \o << ":" >> \o Decimal(Get(data, "throttle", 1500)) \o << "\n" >>

(* ------------------------- lines and commands ------------------------- *)

\* The values of the telemetry lines: a direction, a throttle, a distance
\* (-1 is "no reading"), a battery voltage as the device prints it, and the
\* receiver flag (any integer).
Directions == { 1450, -20 }
Throttles == { 1520 }
Distances == { -1, 45 }
Batteries == { << "1", "1", ".", "2" >>, << "7" >> }
RxFlags == { 0, 1, 2 }

\* f"{x}" of a float <<digits, places>>: at least one digit on each side of
\* the point.
RECURSIVE Zeros(_)
Zeros(n) == IF n <= 0 THEN <<>> ELSE << "0" >> \o Zeros(n - 1)
FloatRepr(x) ==
    LET magnitude == IF x[1] < 0 THEN -x[1] ELSE x[1]
        digits == Decimal(magnitude)
        padded == Zeros(x[2] + 1 - Len(digits)) \o digits
        whole == SubSeq(padded, 1, Len(padded) - x[2])
        places == SubSeq(padded, Len(padded) - x[2] + 1, Len(padded))
    IN  (IF x[1] < 0 THEN << "-" >> ELSE <<>>) \o whole \o << "." >>
            \o (IF places = <<>> THEN << "0" >> ELSE places)

\* The line of the device for these values: TELEM:{dir}:{thr}:{dist}:{batt}:{rx}
TelemTokens(d, t, dist, batt, rx) ==
    << TELEM, Decimal(d), Decimal(t), Decimal(dist), batt, Decimal(rx) >>
TelemLine(d, t, dist, batt, rx) == Join(TelemTokens(d, t, dist, batt, rx))

\* Every well-formed line of these values.
ValidLines ==
    { TelemLine(d, t, dist, batt, rx) :
        d \in Directions, t \in Throttles, dist \in Distances, batt \in Batteries,
        rx \in RxFlags }

\* A well-formed line as readline returns it, with a signed field, and with
\* a seventh token.
BaseTokens == TelemTokens(1450, 1520, 45, << "1", "1", ".", "2" >>, 1)
DressedLines ==
    { Join(BaseTokens) \o << "\r", "\n" >>,
      << " " >> \o Join(BaseTokens),
      Join([BaseTokens EXCEPT ![2] = << "+", "5" >>]),
      Join(BaseTokens \o << << "9" >> >>) }

\* Tokens that are no integer, and tokens that are no number.
NotAnInt == { << "x" >>, <<>>, << "1", ".", "5" >>, << "-" >> }
NotANumber == { << "x" >>, <<>>, << "1", ".", "2", ".", "3" >>, << "." >> }

\* Lines with fewer than 6 tokens, with another first token, and with a
\* field that is not numeric.
ShortLines == { Join(SubSeq(BaseTokens, 1, k)) : k \in 1..5 }
WrongTagLines ==
    { Join([BaseTokens EXCEPT ![1] = tag]) :
        tag \in { TELEM \o << "X" >>, << "t", "e", "l", "e", "m" >>, << "X" >> \o TELEM } }
NonNumericLines ==
    { Join([BaseTokens EXCEPT ![i] = bad]) : i \in {2, 3, 4, 6}, bad \in NotAnInt }
    \cup { Join([BaseTokens EXCEPT ![5] = bad]) : bad \in NotANumber }
MalformedLines == ShortLines \cup WrongTagLines \cup NonNumericLines

\* The other lines of the device.
AckLines == { Join(<< ACK, << "O", "K" >> >>), ACK \o << ":" >> }
HeartbeatLines == { Join(<< HEARTBEAT, << "4", "2" >> >>) }
OtherLines == { << "R", "E", "A", "D", "Y" >>, <<>> }

Lines ==
    ValidLines \cup DressedLines \cup MalformedLines \cup AckLines
        \cup HeartbeatLines \cup OtherLines

\* The commands: in range, on the limits, next to them, and far outside.
CommandValues == { -5, 999, 1000, 1650, 2000, 2001 }
Commands ==
    { [direction |-> d, throttle |-> t, mode |-> "manual"] :
        d \in CommandValues, t \in CommandValues }

(* ----------------------- the codec at work ----------------------------- *)

\* A line and a command, before any function is applied to them.
InitCodec ==
    /\ InitRelay
    /\ line \in Lines
    /\ command \in Commands
    /\ telem = NoTelemetry
    /\ esp32_string = <<>>
    /\ applied = {}
    /\ InitUsb
    /\ InitAdapters
    /\ InitProfiles

\* A function is applied once to the line or the command at hand.
Apply(name) ==
    /\ name \notin applied
    /\ applied' = applied \cup {name}

\* telem = VehicleTelemetry.from_esp32_string(line)
VehicleTelemetry_from_esp32_string ==
    /\ Apply("from_esp32_string")
    /\ telem' = from_esp32_string(line)
    /\ UNCHANGED <<relay, usb, adapters, profiles, line, command, esp32_string>>

\* parse_and_send_telemetry(line)
bridge_parse_and_send_telemetry ==
    /\ Apply("parse_and_send_telemetry")
    /\ sio_emitted' = parse_and_send_telemetry(line, bridge.connected)
    /\ UNCHANGED <<relay, adapters, profiles, line, command, telem, esp32_string>>
    /\ UNCHANGED <<bridge, serial_written, wire, received>>

\* esp32_string = command.to_esp32_string()
VehicleCommand_to_esp32_string ==
    /\ Apply("to_esp32_string")
    /\ esp32_string' = to_esp32_string(command)
    /\ UNCHANGED <<relay, usb, adapters, profiles, line, command, telem>>

\* A variant that writes whatever the state of the port.
write_to_serial_unchecked(data) ==
    serial_written' = << cmd_str(data) >>

\* write_to_serial(data) for a dict: the string is written when
\* serial_connection is open; nothing is when it is None or closed (the
\* function falls through) or when write raises (the exception is caught
\* and logged).
write_to_serial(data) ==
    serial_written' = (IF bridge.serial = "open" THEN << cmd_str(data) >> ELSE <<>>)

\* write_to_serial(command) for the command's dict
bridge_write_to_serial ==
    /\ Apply("write_to_serial")
    /\ write_to_serial(command)
    /\ sio_emitted' = <<>>
    /\ UNCHANGED <<relay, adapters, profiles, line, command, telem, esp32_string>>
    /\ UNCHANGED <<bridge, wire, received>>

NextCodec ==
    \/ VehicleTelemetry_from_esp32_string
    \/ bridge_parse_and_send_telemetry
    \/ VehicleCommand_to_esp32_string
    \/ bridge_write_to_serial

SpecCodec == InitCodec /\ [][NextCodec]_vars

(* ===================================================================== *)
(* The receivers of the device's lines: SerialAdapter and WiFiAdapter of  *)
(* the desktop application, and read_serial_thread of the bridge.         *)
(* ===================================================================== *)

\* The reads and transport faults of one behaviour.
MaxDeviceSteps == 2

DeviceStep ==
    /\ device_steps < MaxDeviceSteps
    /\ device_steps' = device_steps + 1

\* A variant without the except clause: the parser's result is taken as it
\* is.
Received_unguarded(stripped) ==
    IF stripped # <<>> /\ StartsWith(stripped, TELEM \o << ":" >>)
      THEN from_esp32_string(stripped)
      ELSE NoTelemetry

\* Lines 158-168 of SerialAdapter.receive_telemetry and lines 104-114 of
\* WiFiAdapter.receive_telemetry: the telemetry of a stripped line, or None
\* for an empty line, a line that is no telemetry and a line that fails to
\* parse (the ValueError is caught and logged).
Received(stripped) ==
    IF stripped # <<>> /\ StartsWith(stripped, TELEM \o << ":" >>)
      THEN LET parsed == from_esp32_string(stripped)
           IN  IF Raised(parsed) THEN NoTelemetry ELSE parsed
      ELSE NoTelemetry

\* A variant that forgets the last telemetry on a line that yields none.
SerialAdapter_receive_telemetry_forgets(raw) ==
    /\ DeviceStep
    /\ line' = raw
    /\ IF ~serial_adapter.connected
         THEN serial_adapter' = [serial_adapter EXCEPT !.returned = NoTelemetry]
         ELSE LET got == Received(Strip(raw))
              IN  serial_adapter' =
                     [serial_adapter EXCEPT !.last_telemetry = got, !.returned = got]
    /\ UNCHANGED <<relay, usb, profiles, command, telem, esp32_string, applied,
                   wifi_adapter>>

\* SerialAdapter.receive_telemetry when readline returns raw; a call on an
\* adapter that is not connected returns None at once.
SerialAdapter_receive_telemetry(raw) ==
    /\ DeviceStep
    /\ line' = raw
    /\ IF ~serial_adapter.connected
         THEN serial_adapter' = [serial_adapter EXCEPT !.returned = NoTelemetry]
         ELSE LET got == Received(Strip(raw))
              IN  serial_adapter' =
                     [serial_adapter EXCEPT
                        !.last_telemetry = IF got = NoTelemetry THEN @ ELSE got,
                        !.returned = got]
    /\ UNCHANGED <<relay, usb, profiles, command, telem, esp32_string, applied,
                   wifi_adapter>>

\* SerialAdapter.receive_telemetry when the port raises SerialException
\* (lines 172-175).
SerialAdapter_receive_telemetry_error ==
    /\ DeviceStep
    /\ serial_adapter.connected
    /\ serial_adapter' = [serial_adapter EXCEPT !.connected = FALSE,
                                                !.returned = NoTelemetry]
    /\ UNCHANGED <<relay, usb, profiles, codec, wifi_adapter>>

\* buffer.split('\n', 1)
Before(buffer) ==
    SubSeq(buffer, 1, (CHOOSE i \in DOMAIN buffer :
                           buffer[i] = "\n" /\ \A j \in 1..(i - 1) : buffer[j] # "\n") - 1)
After(buffer) == SubSeq(buffer, Len(Before(buffer)) + 2, Len(buffer))

\* The loop of WiFiAdapter.receive_telemetry (lines 96-114): the complete
\* lines of the buffer are taken one by one until one parses as telemetry.
RECURSIVE Lines_96_114(_, _)
Lines_96_114(buffer, last) ==
    IF \A i \in DOMAIN buffer : buffer[i] # "\n"
      THEN [buffer |-> buffer, last_telemetry |-> last, returned |-> NoTelemetry]
      ELSE LET got == Received(Strip(Before(buffer)))
           IN  IF got = NoTelemetry
                 THEN Lines_96_114(After(buffer), last)
                 ELSE [buffer |-> After(buffer), last_telemetry |-> got,
                       returned |-> got]

\* A variant that empties the buffer when it returns a telemetry.
WiFiAdapter_receive_telemetry_empties(data) ==
    /\ DeviceStep
    /\ line' = data
    /\ IF ~wifi_adapter.connected \/ data = <<>>
         THEN wifi_adapter' = [wifi_adapter EXCEPT !.returned = NoTelemetry]
         ELSE LET out == Lines_96_114(wifi_adapter.buffer \o data,
                                      wifi_adapter.last_telemetry)
              IN  wifi_adapter' = [connected |-> TRUE,
                                   last_telemetry |-> out.last_telemetry,
                                   buffer |-> IF out.returned = NoTelemetry
                                                THEN out.buffer ELSE <<>>,
                                   returned |-> out.returned]
    /\ UNCHANGED <<relay, usb, profiles, command, telem, esp32_string, applied,
                   serial_adapter>>

\* WiFiAdapter.receive_telemetry when recv returns data.
WiFiAdapter_receive_telemetry(data) ==
    /\ DeviceStep
    /\ line' = data
    /\ IF ~wifi_adapter.connected \/ data = <<>>
         THEN wifi_adapter' = [wifi_adapter EXCEPT !.returned = NoTelemetry]
         ELSE LET out == Lines_96_114(wifi_adapter.buffer \o data,
                                      wifi_adapter.last_telemetry)
              IN  wifi_adapter' = [connected |-> TRUE,
                                   last_telemetry |-> out.last_telemetry,
                                   buffer |-> out.buffer,
                                   returned |-> out.returned]
    /\ UNCHANGED <<relay, usb, profiles, command, telem, esp32_string, applied,
                   serial_adapter>>

\* WiFiAdapter.receive_telemetry when recv raises socket.error (lines
\* 121-124).
WiFiAdapter_receive_telemetry_error ==
    /\ DeviceStep
    /\ wifi_adapter.connected
    /\ wifi_adapter' = [wifi_adapter EXCEPT !.connected = FALSE,
                                            !.returned = NoTelemetry]
    /\ UNCHANGED <<relay, usb, profiles, codec, serial_adapter>>

\* One turn of read_serial_thread when readline returns raw (lines
\* 136-158): a line that begins with TELEM: goes to
\* parse_and_send_telemetry, any other line is logged.
read_serial_thread(raw) ==
    /\ DeviceStep
    /\ bridge.serial = "open"
    /\ line' = raw
    /\ sio_emitted' =
          (IF Strip(raw) # <<>> /\ StartsWith(Strip(raw), TELEM \o << ":" >>)
             THEN parse_and_send_telemetry(Strip(raw), bridge.connected)
             ELSE <<>>)
    /\ serial_written' = <<>>
    /\ UNCHANGED <<relay, profiles, command, telem, esp32_string, applied,
                   serial_adapter, wifi_adapter, bridge, wire, received>>

\* The bridge's link to the relay drops: sio.connected is False until the
\* client has reconnected.
sio_disconnected ==
    /\ DeviceStep
    /\ bridge.connected
    /\ bridge' = [bridge EXCEPT !.connected = FALSE]
    /\ sio_emitted' = <<>>
    /\ serial_written' = <<>>
    /\ UNCHANGED <<relay, profiles, codec, serial_adapter, wifi_adapter, wire,
                   received>>

\* What recv returns: a complete line, a line and the beginning of the
\* next, and two lines at once.
Chunks ==
    { l \o << "\n" >> : l \in AckLines \cup HeartbeatLines }
    \cup { Join(BaseTokens) \o << "\n" >>,
           Join(BaseTokens) \o << "\n" >> \o TELEM \o << ":" >>,
           << "1", ":", "2", ":", "3", ":", "4", ":", "5", "\n" >>,
           Join(SubSeq(BaseTokens, 1, 5)) \o << "\n" >> }
    \cup { l \o << "\n" >> \o Join(BaseTokens) \o << "\n" >> :
             l \in AckLines \cup HeartbeatLines \cup { Join(SubSeq(BaseTokens, 1, 5)) } }

NextDevice ==
    \/ \E raw \in Lines : SerialAdapter_receive_telemetry(raw)
    \/ SerialAdapter_receive_telemetry_error
    \/ \E data \in Chunks : WiFiAdapter_receive_telemetry(data)
    \/ WiFiAdapter_receive_telemetry_error
    \/ \E raw \in Lines : read_serial_thread(raw)
    \/ sio_disconnected

SpecDevice == Init /\ [][NextDevice]_vars

\* What recv returns to the WiFi adapter: nothing, two telemetry lines in
\* either order, the same line twice, a line in two parts, lines behind an
\* acknowledgment, a heartbeat, an empty line and a line that fails to
\* parse, and a line followed by the beginning of the next.
SecondLine == TelemLine(-20, 1520, -1, << "7" >>, 0)
WifiChunks ==
    LET first == Join(BaseTokens)
        nl == << "\n" >>
    IN  { <<>>,
          first \o nl,
          SecondLine \o nl,
          first \o nl \o SecondLine \o nl,
          SecondLine \o nl \o first \o nl,
          first \o nl \o first \o nl,
          SecondLine \o nl \o first \o nl \o SecondLine \o nl,
          SubSeq(SecondLine, 1, 8),
          SubSeq(first, 1, 8),
          SubSeq(first, 9, Len(first)) \o nl,
          Join(<< ACK, << "O", "K" >> >>) \o nl \o SecondLine \o nl,
          Join(<< HEARTBEAT, << "4", "2" >> >>) \o nl,
          nl,
          Join(SubSeq(BaseTokens, 1, 5)) \o nl \o first \o nl,
          SecondLine \o << "\r" >> \o nl \o SubSeq(first, 1, 8) }

\* The WiFi adapter receiving what its socket delivers.
NextWifi ==
    \/ \E data \in WifiChunks : WiFiAdapter_receive_telemetry(data)
    \/ WiFiAdapter_receive_telemetry_error

SpecWifi == Init /\ [][NextWifi]_vars

(* ===================================================================== *)
(* VehicleManager.send_command (vehicle/vehicle_manager.py) with          *)
(* VehicleCommand.validate and the adapter's send_command.                *)
(* ===================================================================== *)

\* A variant of validate whose limits are exclusive.
validate_exclusive(self, limits) ==
    LET dir_min == Get(limits, "dir_min", 1000)
        dir_max == Get(limits, "dir_max", 2000)
        thr_min == Get(limits, "thr_min", 1000)
        thr_max == Get(limits, "thr_max", 2000)
    IN  /\ dir_min < self.direction /\ self.direction < dir_max
        /\ thr_min < self.throttle /\ self.throttle < thr_max

\* VehicleCommand.validate(limits)
validate(self, limits) ==
    LET dir_min == Get(limits, "dir_min", 1000)
        dir_max == Get(limits, "dir_max", 2000)
        thr_min == Get(limits, "thr_min", 1000)
        thr_max == Get(limits, "thr_max", 2000)
    IN  /\ dir_min <= self.direction /\ self.direction <= dir_max
        /\ thr_min <= self.throttle /\ self.throttle <= thr_max

\* The loaded profiles: one without limits, one with limits of its own for
\* the direction and none for the throttle.
LoadedVehicles ==
    [rc_car_001 |-> [limits |-> NoData],
     crawler    |-> [limits |-> [dir_min |-> 1200, dir_max |-> 1800]]]

\* The vehicle_id argument: None (the active vehicle), a loaded vehicle, and
\* an id that is not loaded.
VehicleIds == { NoVehicleId, "rc_car_001", "crawler", "ghost" }

\* The commands sent: on each limit, next to it, and in between.
ManagerCommands ==
    { [direction |-> d, throttle |-> t, mode |-> "manual"] :
        d \in { 999, 1000, 1199, 1200, 1500, 1800, 1801, 2000, 2001 },
        t \in { 999, 1000, 1500, 2000, 2001 } }

\* The manager once the profiles are loaded: no vehicle connected, or one
\* connected whose adapter may since have lost its connection.
InitManager ==
    /\ InitRelay
    /\ InitNoCodec
    /\ InitUsb
    /\ InitAdapters
    /\ config_dir = <<>>
    /\ vehicles = <<>>
    /\ \E active \in { NoVehicleId, "rc_car_001", "crawler" }, connected \in BOOLEAN :
          manager = [vehicles |-> LoadedVehicles,
                     adapters |-> [id \in { active } \ { NoVehicleId } |->
                                     [connected |-> connected]],
                     active |-> active,
                     result |-> FALSE,
                     transmitted |-> <<>>]

\* VehicleManager.send_command(command, vehicle_id); the adapter's write
\* raises when fault is true (its except clause clears _connected).
VehicleManager_send_command(cmd, vehicle_id, fault) ==
    LET target_id == IF vehicle_id # NoVehicleId THEN vehicle_id ELSE manager.active
        refused == [manager EXCEPT !.result = FALSE, !.transmitted = <<>>]
    IN  /\ command' = cmd
        /\ manager' =
              IF target_id = NoVehicleId THEN refused
              ELSE IF target_id \notin DOMAIN manager.adapters
                      \/ target_id \notin DOMAIN manager.vehicles THEN refused
              ELSE IF ~validate(cmd, manager.vehicles[target_id].limits) THEN refused
              ELSE IF ~manager.adapters[target_id].connected THEN refused
              ELSE IF fault
                THEN [refused EXCEPT !.adapters[target_id].connected = FALSE]
                ELSE [manager EXCEPT !.result = TRUE,
                                     !.transmitted = << to_esp32_string(cmd) >>]
        /\ UNCHANGED <<relay, usb, adapters, line, telem, esp32_string, applied,
                       config_dir, vehicles>>

NextManager ==
    \E cmd \in ManagerCommands, vehicle_id \in VehicleIds, fault \in BOOLEAN :
        VehicleManager_send_command(cmd, vehicle_id, fault)

SpecManager == InitManager /\ [][NextManager]_vars

(* ------------- the relay and the bridge, command forwarding ----------- *)
(* src/Cyberdrive_Server/main_server.py and web_client.py                 *)

\* The session of the bridge and the vehicle it reports.
BridgeSid == 1

\* The state once sessions 1 and 2 have connected and session 1, the
\* bridge, has registered and reported its vehicle (handle_connect twice,
\* handle_usb_client_register and handle_vehicle_connected have run, before
\* any other event); started counts the handlers from there on.
InitRegistered ==
    /\ web_clients = 0
    /\ usb_client_connected = TRUE
    /\ usb_client_sid = BridgeSid
    /\ vehicle_connected = TRUE
    /\ current_vehicle_id = "rc_car_001"
    /\ commands_sent = 0
    /\ last_telemetry = [direction |-> 1500, throttle |-> 1500, distance_cm |-> -1,
                         battery_voltage |-> 0, rx_active |-> FALSE,
                         obstacle_detected |-> FALSE, mode |-> "unknown",
                         timestamp |-> "None"]
    /\ telemetry_received = 0
    /\ last_camera_frame = NoFrame
    /\ sessions = [s \in Sids |-> IF s <= 2 THEN "open" ELSE "new"]
    /\ th = [t \in Threads |-> Idle]
    /\ emitted = << Event("vehicle_status", NoSid,
                          [connected |-> TRUE, vehicle_id |-> "rc_car_001"]) >>
    /\ handler = "vehicle_connected"
    /\ dropped = FALSE
    /\ dropped_vehicle = FALSE
    /\ bridge_disconnects = 0
    /\ disconnect_broadcasts = 0
    /\ forwarded = 0
    /\ ingested = 0
    /\ registrant = BridgeSid
    /\ earlier = {}
    /\ last_forwarded = NoData
    /\ last_counted = NoData
    /\ started = 0
    /\ bridge = [serial |-> "open", connected |-> TRUE, sid |-> BridgeSid,
                 acknowledged |-> TRUE, gone |-> {}]
    /\ serial_written = <<>>
    /\ sio_emitted = <<>>
    /\ wire = <<>>
    /\ received = 0
    /\ InitNoCodec
    /\ InitAdapters
    /\ InitProfiles

\* The serial port is unplugged or closed ("closed": serial_connection is
\* not open) or starts to fail on write ("failing": write raises).
serial_fault(kind) ==
    /\ bridge.serial = "open"
    /\ bridge' = [bridge EXCEPT !.serial = kind]
    /\ UNCHANGED <<relay, codec, adapters, profiles>>
    /\ UNCHANGED <<serial_written, sio_emitted, wire, received>>

\* web_client.py lines 250-256, on_vehicle_command(data): one of the
\* vehicle_command events the relay has emitted to the bridge's room is
\* delivered; the handler logs and calls write_to_serial(data), whose
\* result it drops; it emits nothing.
on_vehicle_command(data) ==
    /\ bridge.connected
    /\ received < forwarded
    /\ received' = received + 1
    /\ write_to_serial(data)
    /\ sio_emitted' = <<>>
    /\ UNCHANGED <<relay, codec, adapters, profiles, bridge, wire>>

\* The payload of send_command here, and what the relay forwards of it.
ForwardInputs == { [direction |-> 1700, throttle |-> 1650, mode |-> "auto"] }

ForwardedCommands == { Command(data) : data \in ForwardInputs }

\* The registered relay forwarding the commands of the other sessions to
\* the bridge, whose port may fail.
NextForward ==
    \/ \E s \in Sids \ {BridgeSid} :
        \E data \in ForwardInputs : handle_send_command(s, data)
    \/ \E t \in Threads :
        \/ handle_send_command_284(t)
        \/ handle_send_command_298(t)
        \/ handle_send_command_300(t)
        \/ handle_send_command_300_store(t)
    \/ \E data \in ForwardedCommands : on_vehicle_command(data)
    \/ \E kind \in {"closed", "failing"} : serial_fault(kind)

SpecForward == InitRegistered /\ [][NextForward]_vars

(* ------------------------- the vehicle profiles ----------------------- *)
(* src/Cyberdrive_codesource/vehicle/vehicle_profile.py,                  *)
(* vehicle_manager.py and src/Cyberdrive_Server/main_server.py            *)

\* The most files of a directory.
MaxFiles == 3

\* What json.load makes of a file: it raises on text that is not JSON,
\* returns a list for "[]", and a dict for an object.  The objects: two
\* profiles with the same id, a profile with limits, and an object without
\* its id.
ProfileFiles ==
    { [json |-> "invalid"],
      [json |-> "array"],
      [json |-> "object",
       data |-> [id |-> "rc_car_001", name |-> "RC Car", type |-> "car"]],
      [json |-> "object",
       data |-> [id |-> "rc_car_001", name |-> "RC Car 2", type |-> "car"]],
      [json |-> "object",
       data |-> [id |-> "crawler", name |-> "Crawler", type |-> "car",
                 limits |-> [dir_min |-> 1200, dir_max |-> 1800]]],
      [json |-> "object", data |-> [name |-> "Nameless", type |-> "car"]] }

\* The directories: the files that glob("*.json") yields, in its order.
Directories == UNION { [1..n -> ProfileFiles] : n \in 0..MaxFiles }

\* The value json.load returns for "[]".
EmptyList == [list |-> <<>>]

\* VehicleProfile.from_json_file: json.load raises on invalid text,
\* data.get raises on a list, data['id'], data['name'] and data['type']
\* raise on a missing key; of the profile, the fields the model reads.
from_json_file(file) ==
    IF file.json = "invalid" THEN [error |-> "JSONDecodeError"]
    ELSE IF file.json = "array" THEN [error |-> "AttributeError"]
    ELSE IF ~({"id", "name", "type"} \subseteq DOMAIN file.data)
      THEN [error |-> "KeyError"]
      ELSE [id |-> file.data.id, name |-> file.data.name,
            limits |-> Get(file.data, "limits", NoData)]

\* lines 37-43 of vehicle_manager.py over the files from the i-th on:
\* self._vehicles[profile.id] = profile, or the exception is logged.
RECURSIVE Lines_37_43(_, _, _)
Lines_37_43(dir, i, _vehicles) ==
    IF i > Len(dir) THEN _vehicles
    ELSE LET profile == from_json_file(dir[i])
         IN  IF Raised(profile) THEN Lines_37_43(dir, i + 1, _vehicles)
             ELSE Lines_37_43(dir, i + 1,
                     [id \in DOMAIN _vehicles \cup {profile.id} |->
                        IF id = profile.id
                          THEN [name |-> profile.name, limits |-> profile.limits]
                          ELSE _vehicles[id]])

\* VehicleManager.load_vehicle_profiles(config_dir) for a directory that
\* exists.
load_vehicle_profiles(dir, _vehicles) == Lines_37_43(dir, 1, _vehicles)

VehicleManager_load_vehicle_profiles ==
    /\ manager' = [manager EXCEPT
                     !.vehicles = load_vehicle_profiles(config_dir, manager.vehicles)]
    /\ UNCHANGED <<relay, codec, usb, adapters, config_dir, vehicles>>

\* lines 89-96 of main_server.py over the files from the i-th on:
\* vehicle = json.load(f); vehicles.append(vehicle); then
\* vehicle.get('name', 'Unknown') for the log.  json.load raises before the
\* append, vehicle.get raises after it; both are caught and logged.
RECURSIVE Lines_89_96(_, _, _)
Lines_89_96(dir, i, list) ==
    IF i > Len(dir) THEN list
    ELSE IF dir[i].json = "invalid" THEN Lines_89_96(dir, i + 1, list)
    ELSE IF dir[i].json = "array"
      THEN Lines_89_96(dir, i + 1, Append(list, EmptyList))
      ELSE Lines_89_96(dir, i + 1, Append(list, dir[i].data))

\* load_vehicle_configs() with config/vehicles holding the directory
load_vehicle_configs ==
    /\ vehicles' = Lines_89_96(config_dir, 1, <<>>)
    /\ UNCHANGED <<relay, codec, usb, adapters, manager, config_dir>>

\* A new VehicleManager and a directory.
InitLoad ==
    /\ InitRelay
    /\ InitNoCodec
    /\ InitUsb
    /\ InitAdapters
    /\ manager = [vehicles |-> <<>>, adapters |-> <<>>, active |-> NoVehicleId,
                  result |-> FALSE, transmitted |-> <<>>]
    /\ config_dir \in Directories
    /\ vehicles = <<>>

NextProfiles ==
    \/ VehicleManager_load_vehicle_profiles
    \/ load_vehicle_configs

SpecProfiles == InitLoad /\ [][NextProfiles]_vars

(* ---------------- the relay and the bridge, reconnection -------------- *)
(* src/Cyberdrive_Server/web_client.py and main_server.py                 *)

\* An event of a session on its way to its handler in the relay.
Wired(ev, sid, data) == [ev |-> ev, sid |-> sid, data |-> data]

\* wire holds the events in the order in which the relay starts their
\* handlers; the first started of them have been started.
Pending(ev) ==
    /\ started < Len(wire)
    /\ wire[started + 1].ev = ev

\* The events a connection brings to the relay: connect,
\* usb_client_register, vehicle_connected and, once lost, disconnect.
EventsOfConnection == 4

\* The link drops: sio is no longer connected, and its session is gone for
\* the bridge (as long as the relay has room for the events of one more
\* connection).
link_drop ==
    /\ bridge.connected
    /\ Len(wire) + EventsOfConnection <= MaxEvents
    /\ bridge' = [bridge EXCEPT !.connected = FALSE, !.sid = NoSid,
                                !.acknowledged = FALSE,
                                !.gone = @ \cup {bridge.sid}]
    /\ UNCHANGED <<relay, codec, adapters, profiles>>
    /\ UNCHANGED <<serial_written, sio_emitted, wire, received>>

\* The relay's server notices that session s is gone, at any time after the
\* drop, and queues its disconnect event.
server_detects_drop(s) ==
    /\ s \in bridge.gone
    /\ \A i \in 1..Len(wire) : ~(wire[i].ev = "disconnect" /\ wire[i].sid = s)
    /\ wire' = Append(wire, Wired("disconnect", s, NoData))
    /\ UNCHANGED <<relay, codec, adapters, profiles>>
    /\ UNCHANGED <<bridge, serial_written, sio_emitted, received>>

\* lines 36-41: socketio.Client(reconnection=True, reconnection_attempts=0):
\* the client connects again, as the next session that has never connected.
sio_reconnect ==
    /\ ~bridge.connected
    /\ bridge.sid = NoSid
    /\ \E s \in Sids :
          /\ sessions[s] = "new"
          /\ \A r \in Sids : r < s => sessions[r] # "new"
          /\ bridge' = [bridge EXCEPT !.sid = s]
          /\ wire' = Append(wire, Wired("connect", s, NoData))
    /\ UNCHANGED <<relay, codec, adapters, profiles>>
    /\ UNCHANGED <<serial_written, sio_emitted, received>>

\* lines 216-226, connect(): once the relay's connect handler has returned
\* the client is connected and emits usb_client_register.
connect ==
    /\ ~bridge.connected
    /\ bridge.sid # NoSid
    /\ sessions[bridge.sid] = "open"
    /\ bridge' = [bridge EXCEPT !.connected = TRUE]
    /\ LET data == [port |-> IF bridge.serial = "closed" THEN "unknown"
                                                         ELSE "/dev/ttyUSB0"]
       IN  /\ sio_emitted' = << [ev |-> "usb_client_register", payload |-> data] >>
           /\ wire' = Append(wire, Wired("usb_client_register", bridge.sid, data))
    /\ UNCHANGED <<relay, codec, adapters, profiles>>
    /\ UNCHANGED <<serial_written, received>>

\* lines 238-248, on_registration_ok(data): usb_registration_ok has been
\* emitted to the bridge's session; if serial_connection and
\* serial_connection.is_open the bridge emits vehicle_connected.
on_registration_ok ==
    /\ bridge.connected
    /\ ~bridge.acknowledged
    /\ bridge.sid \in ({registrant} \cup earlier) \ {NoSid}
    /\ bridge' = [bridge EXCEPT !.acknowledged = TRUE]
    /\ LET data == [vehicle_id |-> "rc_car_001"]
       IN  IF bridge.serial # "closed"
             THEN /\ sio_emitted' = << [ev |-> "vehicle_connected", payload |-> data] >>
                  /\ wire' = Append(wire, Wired("vehicle_connected", bridge.sid, data))
             ELSE /\ sio_emitted' = <<>>
                  /\ UNCHANGED wire
    /\ UNCHANGED <<relay, codec, adapters, profiles>>
    /\ UNCHANGED <<serial_written, received>>

\* The relay starts the handler of the next event on the wire.
on_connect ==
    /\ Pending("connect")
    /\ handle_connect_144(wire[started + 1].sid)

on_disconnect ==
    /\ Pending("disconnect")
    /\ handle_disconnect_154(wire[started + 1].sid)

on_usb_client_register ==
    /\ Pending("usb_client_register")
    /\ handle_usb_client_register_178(wire[started + 1].sid, wire[started + 1].data)

on_vehicle_connected ==
    /\ Pending("vehicle_connected")
    /\ handle_vehicle_connected_201(wire[started + 1].sid, wire[started + 1].data)

\* Every step but the loss of the link: the handlers of the relay, the
\* delivery of events and the reactions of the bridge.
Delivery ==
    \/ on_connect
    \/ on_disconnect
    \/ on_usb_client_register
    \/ on_vehicle_connected
    \/ \E t \in Threads :
        \/ handle_connect_145(t)
        \/ handle_disconnect_156(t)
        \/ handle_disconnect_157(t)
        \/ handle_disconnect_158(t)
        \/ handle_disconnect_164(t)
        \/ handle_disconnect_164_store(t)
        \/ handle_usb_client_register_179(t)
        \/ handle_vehicle_connected_202(t)
        \/ handle_vehicle_connected_207(t)
    \/ \E s \in Sids : server_detects_drop(s)
    \/ sio_reconnect
    \/ connect
    \/ on_registration_ok

\* The registered relay and a bridge whose link may drop.
NextReconnect ==
    \/ link_drop
    \/ on_connect
    \/ on_disconnect
    \/ on_usb_client_register
    \/ on_vehicle_connected
    \/ \E t \in Threads :
        \/ handle_connect_145(t)
        \/ handle_disconnect_156(t)
        \/ handle_disconnect_157(t)
        \/ handle_disconnect_158(t)
        \/ handle_disconnect_164(t)
        \/ handle_disconnect_164_store(t)
        \/ handle_usb_client_register_179(t)
        \/ handle_vehicle_connected_202(t)
        \/ handle_vehicle_connected_207(t)
    \/ \E s \in Sids : server_detects_drop(s)
    \/ sio_reconnect
    \/ connect
    \/ on_registration_ok

\* Events are delivered, handlers run on and the client reconnects: no step
\* of Delivery stays possible for ever without one being taken.
SpecReconnect == InitRegistered /\ [][NextReconnect]_vars /\ WF_vars(Delivery)

(* ------------------- the manager and its connections ------------------ *)
(* src/Cyberdrive_codesource/vehicle/vehicle_manager.py                   *)

\* The profiles a directory may hold, by id, with what connect_vehicle reads
\* of each: a serial vehicle, a WiFi vehicle, a WiFi vehicle whose WiFi is
\* not enabled, a vehicle of an unknown mode, and a serial vehicle whose
\* file gives it the empty string for id.
ConnectionOf(id) ==
    CASE id = "rc_car_001" -> [preferred_mode |-> "serial", wifi_enabled |-> FALSE]
      [] id = "crawler"    -> [preferred_mode |-> "wifi", wifi_enabled |-> TRUE]
      [] id = "boat"       -> [preferred_mode |-> "wifi", wifi_enabled |-> FALSE]
      [] id = "kart"       -> [preferred_mode |-> "bluetooth", wifi_enabled |-> FALSE]
      [] OTHER             -> [preferred_mode |-> "serial", wifi_enabled |-> FALSE]

ProfileIds == { "rc_car_001", "crawler", "boat", "kart", "" }

\* The vehicle_id arguments: the ids of the profiles and one that no
\* profile has.
ConnectIds == ProfileIds \cup { "ghost" }

\* Python's truth value of an Optional[str]: None and "" are false.
Truthy(id) == id # NoVehicleId /\ id # ""

\* d without the key id (del d[id])
Without(d, id) == [k \in DOMAIN d \ {id} |-> d[k]]

\* d with d[id] = value
With(d, id, value) == [k \in DOMAIN d \cup {id} |-> IF k = id THEN value ELSE d[k]]

\* lines 100-110, disconnect_vehicle(vehicle_id) on the manager m: an
\* adapter object is always true.
disconnect_vehicle(m, vehicle_id) ==
    IF vehicle_id \in DOMAIN m.adapters
      THEN [m EXCEPT !.adapters = Without(m.adapters, vehicle_id),
                     !.active = IF m.active = vehicle_id THEN NoVehicleId ELSE m.active]
      ELSE m

\* lines 53-98, connect_vehicle(vehicle_id) on the manager m; connects is
\* what adapter.connect() returns.  A profile object is always true;
\* "if self._active_vehicle_id:" is the truth value of the id.
connect_vehicle(m, vehicle_id, connects) ==
    IF vehicle_id \notin DOMAIN m.vehicles THEN [m EXCEPT !.result = FALSE]
    ELSE LET previous == IF Truthy(m.active)
                           THEN disconnect_vehicle(m, m.active) ELSE m
             conn == m.vehicles[vehicle_id].connection
         IN  IF conn.preferred_mode = "serial"
                  \/ (conn.preferred_mode = "wifi" /\ conn.wifi_enabled)
               THEN IF connects
                      THEN [previous EXCEPT
                              !.adapters = With(previous.adapters, vehicle_id,
                                                [connected |-> TRUE]),
                              !.active = vehicle_id,
                              !.result = TRUE]
                      ELSE [previous EXCEPT !.result = FALSE]
               ELSE [previous EXCEPT !.result = FALSE]

VehicleManager_connect_vehicle(vehicle_id, connects) ==
    /\ manager' = connect_vehicle(manager, vehicle_id, connects)
    /\ UNCHANGED <<relay, codec, usb, adapters, config_dir, vehicles>>

VehicleManager_disconnect_vehicle(vehicle_id) ==
    /\ manager' = disconnect_vehicle(manager, vehicle_id)
    /\ UNCHANGED <<relay, codec, usb, adapters, config_dir, vehicles>>

\* A manager that has loaded some of the profiles and connected none.
InitConnect ==
    /\ InitRelay
    /\ InitNoCodec
    /\ InitUsb
    /\ InitAdapters
    /\ config_dir = <<>>
    /\ vehicles = <<>>
    /\ \E ids \in SUBSET ProfileIds :
          manager = [vehicles |-> [id \in ids |-> [connection |-> ConnectionOf(id)]],
                     adapters |-> <<>>, active |-> NoVehicleId,
                     result |-> FALSE, transmitted |-> <<>>]

NextConnect ==
    \/ \E vehicle_id \in ConnectIds, connects \in BOOLEAN :
          VehicleManager_connect_vehicle(vehicle_id, connects)
    \/ \E vehicle_id \in ConnectIds : VehicleManager_disconnect_vehicle(vehicle_id)

SpecConnect == InitConnect /\ [][NextConnect]_vars

(* ------------------------------- claims ------------------------------- *)

\* The events named ev among those of a step.
Emitted(seq, ev) == { i \in DOMAIN seq : seq[i].ev = ev }

\* The limits of a command when none is configured (VehicleCommand.validate).
DirMin == 1000
DirMax == 2000
ThrMin == 1000
ThrMax == 2000

\* C1: Under any interleaving of the bridge's handle_disconnect with a
\* concurrent handle_send_command, no vehicle_command is emitted once the
\* disconnect has cleared the registration (usb_client_connected false and
\* usb_client_sid None, no bridge registered since), and a vehicle_command
\* never has the cleared (None) target room.
C1_NoCommandAfterBridgeCleared ==
    (dropped /\ usb_client_sid = NoSid) => Emitted(emitted, "vehicle_command") = {}

\* C2: After the registered bridge's session has disconnected, no bridge is
\* registered for as long as no bridge registers again: usb_client_connected
\* is false and, once no disconnect handler is left between its two
\* assignments, usb_client_sid is None; the disconnect leaves
\* vehicle_connected false; and every send_command whose handler starts
\* in that period is rejected with the 'no bridge' error to its sender,
\* without a forward and without a change of commands_sent.
C2_BridgeDisconnectUnregisters ==
    /\ [](dropped =>
            /\ ~usb_client_connected
            /\ (\A t \in Threads : th[t].pc # "disconnect_157")
                   => usb_client_sid = NoSid)
    /\ [][ /\ \A t \in Threads : handle_disconnect_158(t) => ~vehicle_connected'
           /\ \A s \in Sids, data \in CommandInputs :
                 handle_send_command(s, data) /\ dropped =>
                    /\ emitted' = << Event("error", s, [message |-> NoBridge]) >>
                    /\ th' = th
                    /\ commands_sent' = commands_sent ]_vars

\* C2 witness: the bridge disconnected while vehicle_connected was true, the
\* state is cleared, and a send_command has just been rejected with the
\* 'no bridge' error.
C2_Witness ==
    /\ dropped /\ dropped_vehicle
    /\ ~usb_client_connected /\ usb_client_sid = NoSid /\ ~vehicle_connected
    /\ bridge_disconnects = disconnect_broadcasts
    /\ handler = "send_command"
    /\ \E s \in Sids : emitted = << Event("error", s, [message |-> NoBridge]) >>

\* C3: In every reachable state, between the assignments of concurrent
\* handlers included, vehicle_connected implies that a bridge is registered.
C3_VehicleImpliesBridge ==
    vehicle_connected => (usb_client_connected /\ usb_client_sid # NoSid)

\* C4: A send_command issued while no bridge is registered is rejected: the
\* step emits one error event, to the requesting session, the handler has
\* returned (it emits no vehicle_command later) and commands_sent is
\* unchanged.
C4_NoBridgeRejected ==
    [][ \A s \in Sids, data \in CommandInputs :
          handle_send_command(s, data) /\ ~usb_client_connected =>
             /\ emitted' = << Event("error", s, [message |-> NoBridge]) >>
             /\ th' = th
             /\ commands_sent' = commands_sent ]_vars

\* C4 witness: with no bridge registered, a send_command has just been
\* answered with the 'no bridge' error.
C4_Witness ==
    /\ handler = "send_command"
    /\ ~usb_client_connected /\ usb_client_sid = NoSid /\ ~dropped
    /\ \E s \in Sids : emitted = << Event("error", s, [message |-> NoBridge]) >>

\* C5: A send_command issued while a bridge is registered runs on for its
\* sender; when it then finds vehicle_connected false it is rejected: the
\* step emits one 'no vehicle' error, to the requesting session, the
\* handler has returned (it emits no vehicle_command) and commands_sent is
\* unchanged.
C5_NoVehicleRejected ==
    [][ /\ \A s \in Sids, data \in CommandInputs :
              handle_send_command(s, data) /\ usb_client_connected =>
                 \E t \in Threads :
                    /\ th[t] = Idle
                    /\ th'[t].pc = "send_command_284"
                    /\ th'[t].sid = s
        /\ \A t \in Threads :
              handle_send_command_284(t) /\ ~vehicle_connected =>
                 /\ emitted' = << Event("error", th[t].sid, [message |-> NoVehicle]) >>
                 /\ th'[t] = Idle
                 /\ commands_sent' = commands_sent ]_vars

\* C5 witness: with a bridge registered and no vehicle connected, a
\* send_command has just been answered with the 'no vehicle' error.
C5_Witness ==
    /\ handler = "send_command"
    /\ usb_client_connected /\ usb_client_sid # NoSid /\ ~vehicle_connected
    /\ commands_sent = 0
    /\ \E s \in Sids : emitted = << Event("error", s, [message |-> NoVehicle]) >>

\* C6: A command with direction or throttle outside the limits is not
\* forwarded to the bridge: every vehicle_command emitted carries a
\* direction and a throttle within [1000, 2000].
C6_InvalidCommandNotForwarded ==
    \A i \in Emitted(emitted, "vehicle_command") :
        /\ emitted[i].payload.direction \in DirMin..DirMax
        /\ emitted[i].payload.throttle \in ThrMin..ThrMax

\* C7: An accepted send_command emits, while a bridge is registered, one
\* vehicle_command with the requested fields to the bridge's session only,
\* acknowledges with command_sent to the requesting session only, and
\* increments commands_sent by exactly 1.
C7_AcceptedCommandCountedOnce ==
    [][ \A t \in Threads :
          /\ (handle_send_command_298(t) /\ usb_client_connected /\ usb_client_sid # NoSid) =>
                emitted' = << Event("vehicle_command", usb_client_sid, Command(th[t].data)) >>
          /\ handle_send_command_300_store(t) =>
                /\ emitted' = << Event("command_sent", th[t].sid,
                                       [status |-> "ok", command |-> Command(th[t].data)]) >>
                /\ commands_sent' = commands_sent + 1 ]_vars

\* C8: The bridge disconnect clears current_vehicle_id: when the disconnect
\* handler of the registered bridge returns, current_vehicle_id holds no
\* vehicle id.
C8_DisconnectClearsVehicleId ==
    [][ \A t \in Threads :
          handle_disconnect_158(t) => current_vehicle_id' = NoVehicleId ]_vars

\* C9: Each disconnect of the currently registered bridge session produces
\* exactly one usb_client_disconnected event, addressed to every client, and
\* the disconnect of any other session produces none: the broadcasts emitted
\* so far and the bridge disconnects still running add up to the disconnects
\* that found their session registered, a disconnect counts as one exactly
\* when its session is the registered one, and no other step emits the event.
C9_OneBroadcastPerBridgeDisconnect ==
    /\ [](disconnect_broadcasts
            + Cardinality({ t \in Threads : th[t].pc \in
                  {"disconnect_156", "disconnect_157", "disconnect_158"} })
            = bridge_disconnects)
    /\ [][ /\ Cardinality(Emitted(emitted', "usb_client_disconnected"))
                 = disconnect_broadcasts' - disconnect_broadcasts
           /\ \A i \in Emitted(emitted', "usb_client_disconnected") :
                 emitted'[i].room = NoSid /\ handler' = "disconnect"
           /\ \A s \in Sids :
                 handle_disconnect_154(s) =>
                    bridge_disconnects' - bridge_disconnects
                       = (IF s = usb_client_sid THEN 1 ELSE 0)
           /\ (\A s \in Sids : ~handle_disconnect_154(s)) =>
                 bridge_disconnects' = bridge_disconnects ]_vars

\* C9 witness: the bridge's session and another session have both
\* disconnected, and the only broadcast is the one just emitted.
C9_Witness ==
    /\ Cardinality({ s \in Sids : sessions[s] = "closed" }) = 2
    /\ bridge_disconnects = 1 /\ disconnect_broadcasts = 1
    /\ handler = "disconnect"
    /\ emitted = << Event("usb_client_disconnected", NoSid, NoData) >>
    /\ \A t \in Threads : th[t] = Idle

\* C10: vehicle_connected becomes true only by a vehicle_connected event
\* sent by the session that is currently registered as the bridge.
C10_OnlyBridgeSetsVehicleConnected ==
    [][ (~vehicle_connected /\ vehicle_connected') =>
          \E s \in Sids, data \in VehicleInputs :
             /\ handle_vehicle_connected_201(s, data)
             /\ usb_client_connected
             /\ s = usb_client_sid ]_vars

\* The handlers that stand at one of the positions pcs.
At(pcs) == { t \in Threads : th[t].pc \in pcs }

\* C11: No update of a counter is lost under any interleaving: whenever no
\* handler stands between its forward and its count, commands_sent equals
\* the number of vehicle_command events forwarded, and whenever no handler
\* stands between its merge and its count, telemetry_received equals the
\* number of telemetry messages ingested.
C11_NoLostUpdate ==
    /\ At({"send_command_300", "send_command_300_store"}) = {}
          => commands_sent = forwarded
    /\ At({"telemetry_237", "telemetry_238", "telemetry_238_store"}) = {}
          => telemetry_received = ingested

\* C12: commands_sent and telemetry_received are monotonic: no step of any
\* handler decreases either counter.
C12_CountersMonotonic ==
    [][ commands_sent' >= commands_sent
        /\ telemetry_received' >= telemetry_received ]_vars

\* C13: web_clients is never negative, under every interleaving of connect,
\* web_client_hello, registration and disconnect events; each hello adds
\* exactly 1 to it and each disconnect of a session that is not the bridge
\* subtracts 1, floored at 0.
C13_ObserverCount ==
    /\ [](web_clients >= 0)
    /\ [][ \A t \in Threads :
             /\ handle_web_client_hello_269_store(t) =>
                   web_clients' = web_clients + 1
             /\ handle_disconnect_164_store(t) =>
                   web_clients' = (IF web_clients > 0 THEN web_clients - 1 ELSE 0) ]_vars

\* C14: The disconnect of a session that is not the registered bridge takes
\* the branch of line 164 and leaves usb_client_connected, usb_client_sid,
\* vehicle_connected, current_vehicle_id, last_telemetry, commands_sent and
\* telemetry_received unchanged at each of its steps; only its last step
\* writes, and it writes web_clients.
C14_ObserverDisconnectFrame ==
    [][ /\ \A s \in Sids :
              handle_disconnect_154(s) /\ s # usb_client_sid =>
                 /\ UNCHANGED state
                 /\ \E t \in Threads : th[t] = Idle /\ th'[t].pc = "disconnect_164"
        /\ \A t \in Threads :
              /\ handle_disconnect_164(t) => UNCHANGED state
              /\ handle_disconnect_164_store(t) =>
                    UNCHANGED <<usb_client_connected, usb_client_sid, vehicle_connected,
                                current_vehicle_id, last_telemetry, commands_sent,
                                telemetry_received>> ]_vars

\* C14 witness: with a bridge registered and its vehicle connected, the
\* disconnect of another session has just returned; the bridge is still
\* registered and the vehicle still connected.
C14_Witness ==
    /\ handler = "disconnect"
    /\ \A t \in Threads : th[t] = Idle
    /\ bridge_disconnects = 0
    /\ \E s \in Sids : sessions[s] = "closed" /\ s # usb_client_sid
    /\ usb_client_connected /\ usb_client_sid \in Sids
    /\ sessions[usb_client_sid] = "open"
    /\ vehicle_connected /\ current_vehicle_id = "rc_car_001"

\* C15: Bridge registration is last-register-wins.  Every
\* usb_client_register handler runs on for its sender, stores the sender's
\* session id and acknowledges to the sender; the registered session id is
\* the latest one stored, unless a bridge disconnect has run; and a
\* vehicle_command is never addressed to an earlier registrant: with a
\* registration made and no bridge disconnect, it is addressed to the latest
\* registrant.
C15_LastRegisterWins ==
    /\ [](/\ usb_client_sid \in {registrant, NoSid}
          /\ bridge_disconnects = 0 => usb_client_sid = registrant)
    /\ [][ /\ \A s \in Sids, data \in RegisterInputs :
                 handle_usb_client_register_178(s, data) =>
                    \E t \in Threads :
                       /\ th[t] = Idle
                       /\ th'[t].pc = "register_179"
                       /\ th'[t].sid = s
           /\ \A t \in Threads :
                 handle_usb_client_register_179(t) =>
                    /\ usb_client_sid' = th[t].sid
                    /\ registrant' = th[t].sid
                    /\ Cardinality(Emitted(emitted', "usb_registration_ok")) = 1
                    /\ \A i \in Emitted(emitted', "usb_registration_ok") :
                          emitted'[i].room = th[t].sid
           /\ \A i \in Emitted(emitted', "vehicle_command") :
                 /\ emitted'[i].room \notin earlier
                 /\ (bridge_disconnects = 0 /\ registrant # NoSid)
                       => emitted'[i].room = registrant ]_vars

\* C15 witness: two sessions have registered in turn, and a command has just
\* been forwarded to the later registrant.
C15_Witness ==
    /\ earlier # {}
    /\ registrant \in Sids /\ usb_client_sid = registrant
    /\ bridge_disconnects = 0
    /\ handler = "send_command"
    /\ Emitted(emitted, "vehicle_command") # {}
    /\ \A i \in Emitted(emitted, "vehicle_command") : emitted[i].room = registrant

\* C16: Conflicting commands reach the bridge in the order in which they
\* were accepted: whenever no handler stands between its forward and its
\* count, the most recently forwarded vehicle_command is the command of the
\* submit that was counted in commands_sent last.
C16_LastAcceptedIsLastForwarded ==
    At({"send_command_300", "send_command_300_store"}) = {}
        => last_forwarded = last_counted

\* The literal (direction, throttle) pair that the specification gives for
\* each tag of the quick-command vocabulary.
Literal(tag) ==
    CASE tag = "forward"  -> [direction |-> 1500, throttle |-> 1650]
      [] tag = "backward" -> [direction |-> 1500, throttle |-> 1350]
      [] tag = "left"     -> [direction |-> 1300, throttle |-> 1500]
      [] tag = "right"    -> [direction |-> 1700, throttle |-> 1500]
      [] tag = "stop"     -> [direction |-> 1500, throttle |-> 1500]
      [] tag = "center"   -> [direction |-> 1500, throttle |-> 1500]

\* C17: For every tag of {forward, backward, left, right, stop, center},
\* a quick_command(tag) step is the step that send_command makes with the
\* literal pair of the tag, in every state of bridge and vehicle liveness:
\* the same error to the same session, or the same handler running on with
\* the literal pair as its payload, and the same state.
C17_QuickCommandIsSendCommand ==
    [][ \A s \in Sids :
          \A tag \in {"forward", "backward", "left", "right", "stop", "center"} :
             handle_quick_command(s, [command |-> tag]) =>
                handle_send_command_280(s, Literal(tag)) ]_vars

\* C17 witness: quick_command("left") was accepted, and the command 1300 /
\* 1500 / manual has just been forwarded to the bridge.
C17_Witness ==
    /\ handler = "send_command"
    /\ usb_client_sid \in Sids
    /\ emitted = << Event("vehicle_command", usb_client_sid,
                          [direction |-> 1300, throttle |-> 1500, mode |-> "manual"]) >>

\* The vocabulary of quick_command in the specification.
Vocabulary == {"forward", "backward", "left", "right", "stop", "center"}

\* C18: quick_command with a tag outside the vocabulary fails with the
\* unknown-command error, sent to the requester only: the handler returns
\* at once, nothing is forwarded to the bridge, and commands_sent and the
\* rest of the state are unchanged, whatever the bridge and vehicle flags.
C18_UnknownTagRejected ==
    [][ \A s \in Sids, data \in QuickInputs :
          (data.command \notin Vocabulary /\ handle_quick_command(s, data)) =>
             /\ emitted' = << Event("error", s, [message |-> UnknownCommand,
                                                 command |-> data.command]) >>
             /\ th' = th
             /\ UNCHANGED state ]_vars

\* C18 witness: with a bridge registered and the vehicle connected,
\* quick_command("spin") has just been answered with the unknown-command
\* error.
C18_Witness ==
    /\ handler = "quick_command"
    /\ usb_client_connected /\ usb_client_sid \in Sids /\ vehicle_connected
    /\ forwarded = 0 /\ commands_sent = 0
    /\ \E s \in Sids :
          emitted = << Event("error", s, [message |-> UnknownCommand,
                                          command |-> "spin"]) >>

\* C19: select_vehicle fails with the 'no bridge' error, to the requester
\* only, when no bridge is registered; otherwise it emits one connect_vehicle
\* to the registered bridge's session only; in both cases vehicle_connected,
\* current_vehicle_id and the counters are unchanged.
C19_SelectVehicle ==
    [][ /\ \A s \in Sids, data \in VehicleInputs :
              handle_select_vehicle_343(s, data) =>
                 /\ UNCHANGED <<vehicle_connected, current_vehicle_id, commands_sent,
                                telemetry_received>>
                 /\ ~usb_client_connected =>
                       /\ emitted' = << Event("error", s, [message |-> NoBridge]) >>
                       /\ th' = th
        /\ \A t \in Threads :
              handle_select_vehicle_348(t) =>
                 /\ UNCHANGED <<vehicle_connected, current_vehicle_id, commands_sent,
                                telemetry_received>>
                 /\ Len(emitted') = 1
                 /\ emitted'[1].ev = "connect_vehicle"
                 /\ emitted'[1].room \in Sids
                 /\ emitted'[1].room = usb_client_sid ]_vars

\* C20: Telemetry ingestion is a partial update: the merge of a message
\* sets every field the message supplies to the supplied value and keeps
\* every other field; the stamp changes timestamp only; telemetry_received
\* is incremented by exactly 1; and one telemetry_update carrying the
\* snapshot is emitted to every session.
C20_TelemetryPartialUpdate ==
    [][ /\ \A s \in Sids, data \in TelemetryInputs :
              handle_vehicle_telemetry_236(s, data) =>
                 /\ DOMAIN last_telemetry' = DOMAIN last_telemetry \cup DOMAIN data
                 /\ \A k \in DOMAIN data : last_telemetry'[k] = data[k]
                 /\ \A k \in DOMAIN last_telemetry \ DOMAIN data :
                       last_telemetry'[k] = last_telemetry[k]
        /\ \A t \in Threads :
              /\ handle_vehicle_telemetry_237(t) =>
                    \A k \in DOMAIN last_telemetry \ {"timestamp"} :
                       last_telemetry'[k] = last_telemetry[k]
              /\ handle_vehicle_telemetry_238_store(t) =>
                    telemetry_received' = telemetry_received + 1
              /\ handle_vehicle_telemetry_241(t) =>
                    emitted' = << Event("telemetry_update", NoSid, last_telemetry) >> ]_vars

\* C21: On connect, the connecting session alone receives one server_status
\* whose usb_client_online and vehicle_online flags equal
\* state.usb_client_connected and state.vehicle_connected at the moment of
\* the emit, and the connect changes no field of the session state.
C21_ConnectStatus ==
    [][ /\ \A s \in Sids :
              handle_connect_144(s) => UNCHANGED state /\ emitted' = <<>>
        /\ \A t \in Threads :
              handle_connect_145(t) =>
                 /\ UNCHANGED state
                 /\ emitted' = << Event("server_status", th[t].sid,
                                        [status |-> "connected",
                                         usb_client_online |-> usb_client_connected,
                                         vehicle_online |-> vehicle_connected]) >> ]_vars

\* C22: The camera_update that a camera_frame handler emits carries the
\* frame of its own event and goes to every connected session but the one
\* that sent the event, so that no session receives its own frame back.
C22_CameraFanOut ==
    [][ \A t \in Threads :
           handle_camera_frame_256(t) =>
              emitted' = << EventExcept("camera_update", th[t].sid,
                                        [frame |-> Get(th[t].data, "frame", NoFrame)]) >>
      ]_vars

\* The five fields of the wire format in a telemetry record or dict.
WireFields == { "direction", "throttle", "distance_cm", "battery_voltage", "rx_active" }
Wire(record) == [f \in WireFields |-> record[f]]

\* C24: For every line TELEM:<d>:<t>:<dist>:<batt>:<rx> with integers d, t,
\* dist and rx, from_esp32_string yields direction = d, throttle = t,
\* distance_cm = dist and rx_active = (rx # 0); the line formatted from the
\* parsed fields parses to the same five values; and the vehicle_telemetry
\* that parse_and_send_telemetry emits for the line carries the same five
\* values.
C24_TelemetryRoundTrip ==
    /\ [](\A d \in Directions, t \in Throttles, dist \in Distances,
             batt \in Batteries, rx \in RxFlags :
            line = TelemLine(d, t, dist, batt, rx)
              /\ "from_esp32_string" \in applied =>
                /\ ~Raised(telem)
                /\ telem.direction = d
                /\ telem.throttle = t
                /\ telem.distance_cm = dist
                /\ telem.rx_active = (rx # 0)
                /\ LET again == from_esp32_string(
                                   TelemLine(telem.direction, telem.throttle,
                                             telem.distance_cm,
                                             FloatRepr(telem.battery_voltage),
                                             IF telem.rx_active THEN 1 ELSE 0))
                   IN  ~Raised(again) /\ Wire(again) = Wire(telem))
    /\ [][ bridge_parse_and_send_telemetry /\ line \in ValidLines =>
              /\ Len(sio_emitted') = 1
              /\ sio_emitted'[1].ev = "vehicle_telemetry"
              /\ Wire(sio_emitted'[1].payload) = Wire(from_esp32_string(line)) ]_vars

\* Both parsers have read TELEM:-20:1520:-1:11.2:2.
C24_Witness ==
    /\ line = << "T", "E", "L", "E", "M", ":", "-", "2", "0", ":", "1", "5", "2", "0",
                 ":", "-", "1", ":", "1", "1", ".", "2", ":", "2" >>
    /\ applied = {"from_esp32_string", "parse_and_send_telemetry"}
    /\ Wire(telem) = [direction |-> -20, throttle |-> 1520, distance_cm |-> -1,
                      battery_voltage |-> << 112, 1 >>, rx_active |-> TRUE]
    /\ Len(sio_emitted) = 1
    /\ Wire(sio_emitted[1].payload) = Wire(telem)

\* A token is the decimal numeral of n: digits with a minus sign for a
\* negative n, no plus sign, no leading zero.
Numeral(token, n) ==
    /\ int(token) = [value |-> n]
    /\ token[1] # "+"
    /\ Len(Unsigned(token)) > 1 => Unsigned(token)[1] # "0"
    /\ \A i \in DOMAIN token : token[i] \notin Whitespace

\* A string is CMD:MOVE:<d>:<t> and one newline.
Rendered(string, d, t) ==
    /\ string # <<>>
    /\ string[Len(string)] = "\n"
    /\ Cardinality({ i \in DOMAIN string : string[i] = "\n" }) = 1
    /\ LET parts == Split(SubSeq(string, 1, Len(string) - 1), ":")
       IN  /\ Len(parts) = 4
           /\ parts[1] = CMD
           /\ parts[2] = MOVE
           /\ Numeral(parts[3], d)
           /\ Numeral(parts[4], t)

\* C26: For every direction d and throttle t, to_esp32_string renders
\* CMD:MOVE:<d>:<t> followed by one newline, d and t being the command's own
\* values whether or not they lie in 1000..2000, and write_to_serial writes
\* the same string for the command's dict.
C26_CommandFormat ==
    /\ []("to_esp32_string" \in applied =>
            /\ Rendered(esp32_string, command.direction, command.throttle)
            /\ command.direction = 1650 /\ command.throttle = 2000 =>
                  esp32_string = << "C", "M", "D", ":", "M", "O", "V", "E", ":",
                                    "1", "6", "5", "0", ":", "2", "0", "0", "0", "\n" >>)
    /\ [][ bridge_write_to_serial =>
              /\ serial_written' = << to_esp32_string(command) >>
              /\ Rendered(serial_written'[1], command.direction, command.throttle)
         ]_vars

\* Both formatters have rendered direction -5 and throttle 2001.
C26_Witness ==
    /\ applied = {"to_esp32_string", "write_to_serial"}
    /\ command = [direction |-> -5, throttle |-> 2001, mode |-> "manual"]
    /\ esp32_string = << "C", "M", "D", ":", "M", "O", "V", "E", ":", "-", "5", ":",
                         "2", "0", "0", "1", "\n" >>
    /\ serial_written = << esp32_string >>

FirstLine(data) == Before(data) \o << "\n" >>

\* C27: A line that begins with ACK: or HEARTBEAT: changes nothing: the
\* serial adapter returns None and keeps _last_telemetry and _connected; the
\* WiFi adapter with an empty buffer does with a chunk that begins with such
\* a line what it does with the rest of the chunk, and returns None when the
\* line is the whole chunk; the bridge emits nothing and keeps its state.
C27_AckHeartbeatIgnored ==
    [][ /\ \A raw \in AckLines \cup HeartbeatLines :
              /\ SerialAdapter_receive_telemetry(raw) =>
                    serial_adapter' = [serial_adapter EXCEPT !.returned = NoTelemetry]
              /\ read_serial_thread(raw) =>
                    /\ sio_emitted' = <<>>
                    /\ bridge' = bridge
        /\ \A data \in Chunks :
              /\ WiFiAdapter_receive_telemetry(data)
              /\ wifi_adapter.connected
              /\ wifi_adapter.buffer = <<>>
              /\ \E a \in AckLines \cup HeartbeatLines : FirstLine(data) = a \o << "\n" >>
              => LET rest == SubSeq(data, Len(FirstLine(data)) + 1, Len(data))
                     out == Lines_96_114(rest, wifi_adapter.last_telemetry)
                 IN  /\ wifi_adapter'.connected
                     /\ wifi_adapter'.last_telemetry = out.last_telemetry
                     /\ wifi_adapter'.returned = out.returned
                     /\ wifi_adapter'.buffer = out.buffer
                     /\ rest = <<>> =>
                           /\ wifi_adapter'.returned = NoTelemetry
                           /\ wifi_adapter'.last_telemetry = wifi_adapter.last_telemetry
      ]_vars

\* The WiFi adapter has received HEARTBEAT:42 after a telemetry line.
C27_Witness ==
    /\ line = HEARTBEAT \o << ":", "4", "2", "\n" >>
    /\ device_steps = 2
    /\ wifi_adapter.connected
    /\ wifi_adapter.buffer = <<>>
    /\ wifi_adapter.returned = NoTelemetry
    /\ wifi_adapter.last_telemetry # NoTelemetry
    /\ wifi_adapter.last_telemetry.rx_active

\* C23: VehicleManager.send_command transmits no command whose direction or
\* throttle lies outside the inclusive limits of the target's profile (1000
\* and 2000 where the profile gives none): it returns False and the adapter
\* writes nothing; a command within the limits, the limits themselves
\* included, is transmitted when the adapter is connected and its write
\* succeeds.
C23_LimitsEnforced ==
    [][ \A cmd \in ManagerCommands, vehicle_id \in VehicleIds, fault \in BOOLEAN :
           VehicleManager_send_command(cmd, vehicle_id, fault) =>
              LET target_id == IF vehicle_id # NoVehicleId THEN vehicle_id
                               ELSE manager.active
              IN  target_id \in DOMAIN manager.vehicles =>
                     LET limits == manager.vehicles[target_id].limits
                         lo_d == IF "dir_min" \in DOMAIN limits THEN limits.dir_min ELSE DirMin
                         hi_d == IF "dir_max" \in DOMAIN limits THEN limits.dir_max ELSE DirMax
                         lo_t == IF "thr_min" \in DOMAIN limits THEN limits.thr_min ELSE ThrMin
                         hi_t == IF "thr_max" \in DOMAIN limits THEN limits.thr_max ELSE ThrMax
                         within == /\ cmd.direction \in lo_d..hi_d
                                   /\ cmd.throttle \in lo_t..hi_t
                     IN  /\ ~within =>
                               /\ manager'.result = FALSE
                               /\ manager'.transmitted = <<>>
                         /\ within
                              /\ target_id \in DOMAIN manager.adapters
                              /\ manager.adapters[target_id].connected
                              /\ ~fault
                              => /\ manager'.result = TRUE
                                 /\ manager'.transmitted = << to_esp32_string(cmd) >>
      ]_vars

\* The command on the lower direction limit of 'crawler' and the upper
\* default throttle limit has been transmitted.
C23_Witness ==
    /\ manager.active = "crawler"
    /\ command = [direction |-> 1200, throttle |-> 2000, mode |-> "manual"]
    /\ manager.result = TRUE
    /\ manager.transmitted = << to_esp32_string(command) >>

\* C28: when the bridge receives vehicle_command it writes to the serial
\* port if it can; when the port is closed or the write fails it writes
\* nothing, emits nothing to the relay, and nothing of the relay (its
\* state, the events it has emitted, commands_sent) changes.
C28_FireAndForget ==
    [][ \A data \in ForwardedCommands :
          on_vehicle_command(data) =>
            /\ sio_emitted' = <<>>
            /\ UNCHANGED relay
            /\ bridge.serial = "open" => serial_written' = << cmd_str(data) >>
            /\ bridge.serial # "open" => serial_written' = <<>> ]_vars

\* A command was forwarded and counted, and delivered to a bridge whose
\* port fails.
C28_Witness ==
    /\ received = 1
    /\ forwarded = 1
    /\ commands_sent = 1
    /\ bridge.serial = "failing"
    /\ serial_written = <<>>
    /\ sio_emitted = <<>>

\* The files of a directory that hold a profile: a JSON object with the id,
\* the name and the type of section 3.
WellFormed(file) ==
    /\ file.json = "object"
    /\ {"id", "name", "type"} \subseteq DOMAIN file.data

WellFormedIds(dir) ==
    { dir[i].data.id : i \in { j \in 1..Len(dir) : WellFormed(dir[j]) } }

\* VehicleManager.load_vehicle_profiles completes on every directory, and
\* a new manager then maps exactly the ids of the well-formed files.
ProfilesLoaded ==
    /\ [](ENABLED VehicleManager_load_vehicle_profiles)
    /\ [][ VehicleManager_load_vehicle_profiles =>
             DOMAIN manager'.vehicles
               = DOMAIN manager.vehicles \cup WellFormedIds(config_dir) ]_vars

\* C29 for the manager: from an empty manager the mapping holds exactly the
\* ids of the well-formed files.
ProfilesLoadedOnce ==
    [][ VehicleManager_load_vehicle_profiles /\ DOMAIN manager.vehicles = {} =>
          DOMAIN manager'.vehicles = WellFormedIds(config_dir) ]_vars

\* load_vehicle_configs completes on every directory, and its list holds
\* one entry per id of a well-formed file and nothing else.
ConfigsLoaded ==
    /\ [](ENABLED load_vehicle_configs)
    /\ [][ load_vehicle_configs =>
             /\ \A i \in 1..Len(vehicles') :
                   /\ "id" \in DOMAIN vehicles'[i]
                   /\ vehicles'[i].id \in WellFormedIds(config_dir)
                   /\ \A j \in 1..Len(vehicles') :
                         vehicles'[j].id = vehicles'[i].id => j = i
             /\ \A id \in WellFormedIds(config_dir) :
                   \E i \in 1..Len(vehicles') : vehicles'[i].id = id ]_vars

\* C29: loading the profiles of a directory never aborts on a malformed
\* file: for any mix of well-formed and malformed files both loaders
\* complete, and the result holds exactly the ids of the well-formed files,
\* each once.
C29_LoadSkipsMalformed ==
    /\ ProfilesLoaded
    /\ ProfilesLoadedOnce
    /\ ConfigsLoaded

\* The bridge is connected again after a loss of its link, its serial port
\* open.
Reconnected ==
    /\ bridge.connected
    /\ bridge.gone # {}
    /\ bridge.serial = "open"

\* The relay has the bridge's session registered and the vehicle connected.
Registered ==
    /\ usb_client_connected
    /\ usb_client_sid = bridge.sid
    /\ vehicle_connected

\* C30: if the link of the bridge drops and the bridge reconnects with its
\* serial port open, then, events being delivered fairly, the relay
\* eventually has the bridge registered and vehicle_connected true again.
C30_ReRegisters == Reconnected ~> Registered

\* C31: the telemetry_update that a handler of vehicle_telemetry broadcasts
\* carries the snapshot of its own ingestion: last_telemetry as the
\* handler's own update left it, with the handler's timestamp; no field of
\* it holds a value that only another message supplied.
C31_OwnSnapshot ==
    [][ \A t \in Threads :
          handle_vehicle_telemetry_241(t) =>
            emitted'[1].payload = [th[t].data EXCEPT !.timestamp = Now] ]_vars

\* C32: a vehicle_disconnected event sets vehicle_connected to false and
\* broadcasts one vehicle_status with connected = false, leaving the bridge
\* registration unchanged; vehicle_connected then stays false until a
\* vehicle_connected event arrives, and as long as it is false every
\* send_command is rejected: with the 'no bridge' error when no bridge is
\* registered, and with the 'no vehicle' error, to its sender, otherwise;
\* none is forwarded or counted.
C32_VehicleDisconnected ==
    [][ /\ \A s \in Sids :
              handle_vehicle_disconnected(s) =>
                 /\ vehicle_connected' = FALSE
                 /\ emitted' = << Event("vehicle_status", NoSid, [connected |-> FALSE]) >>
                 /\ UNCHANGED <<usb_client_connected, usb_client_sid>>
        /\ ~vehicle_connected /\ vehicle_connected' => handler' = "vehicle_connected"
        /\ \A s \in Sids, data \in CommandInputs :
              handle_send_command(s, data) /\ ~vehicle_connected =>
                 IF usb_client_connected
                   THEN /\ emitted' = <<>>
                        /\ \E t \in Threads : /\ th'[t].pc = "send_command_284"
                                              /\ th'[t].sid = s
                   ELSE /\ emitted' = << Event("error", s, [message |-> NoBridge]) >>
                        /\ th' = th
        /\ \A t \in Threads :
              handle_send_command_284(t) /\ ~vehicle_connected =>
                 /\ emitted' = << Event("error", th[t].sid, [message |-> NoVehicle]) >>
                 /\ th'[t] = Idle
                 /\ UNCHANGED <<commands_sent, forwarded>> ]_vars

\* A vehicle was reported and then reported gone through a bridge that
\* stays registered, and a send_command has been answered with the 'no
\* vehicle' error.
C32_Witness ==
    /\ handler = "send_command"
    /\ usb_client_connected
    /\ bridge_disconnects = 0
    /\ current_vehicle_id = "rc_car_001"
    /\ ~vehicle_connected
    /\ \E s \in Sids : emitted = << Event("error", s, [message |-> NoVehicle]) >>

\* C32 as it is stated: the send_command that follows a vehicle_disconnected
\* event gets as far as the test of vehicle_connected, whose error it is
\* answered with.
C32_NoVehicleError ==
    [][ \A s \in Sids, data \in CommandInputs :
          handler = "vehicle_disconnected" /\ handle_send_command(s, data) =>
             \E t \in Threads : th'[t].pc = "send_command_284" ]_vars

\* C33: the bridge flag and the bridge session id agree:
\* usb_client_connected is true if and only if usb_client_sid holds a
\* session id, in every state in which no handler is between its first
\* access and its return.
C33_FlagAndSidAgree ==
    (\A t \in Threads : th[t] = Idle) =>
        (usb_client_connected <=> usb_client_sid # NoSid)

\* The sessions that are connected and are not the registered bridge.
Observers == { s \in Sids : sessions[s] = "open" /\ s # usb_client_sid }

\* C34: once the handlers of the connect, web_client_hello,
\* usb_client_register and disconnect events have returned, web_clients is
\* the number of connected sessions that have sent web_client_hello and are
\* not the registered bridge; it is then at most the number of connected
\* sessions that are not the registered bridge.
C34_ObserverCensus ==
    (\A t \in Threads : th[t] = Idle) => web_clients <= Cardinality(Observers)

\* C35: when session s registered as the bridge and a later registration
\* has put another session in its place, the disconnect of s takes the
\* branch of line 164: none of its steps writes usb_client_connected,
\* usb_client_sid or vehicle_connected or emits usb_client_disconnected, so
\* the other session stays registered; and a command forwarded while the
\* latest registrant is registered is addressed to it.
C35_SupersededBridgeLeaves ==
    [][ /\ \A s \in Sids :
              handle_disconnect_154(s) /\ s \in earlier /\ usb_client_sid = registrant =>
                 /\ UNCHANGED state
                 /\ UNCHANGED <<bridge_disconnects, dropped>>
                 /\ emitted' = <<>>
                 /\ \E t \in Threads : th[t] = Idle /\ th'[t].pc = "disconnect_164"
        /\ \A t \in Threads :
              handle_disconnect_164(t) \/ handle_disconnect_164_store(t) =>
                 /\ UNCHANGED <<usb_client_connected, usb_client_sid, vehicle_connected>>
                 /\ emitted' = <<>>
        /\ \A t \in Threads :
              handle_send_command_298(t) /\ usb_client_sid = registrant =>
                 \E i \in Emitted(emitted', "vehicle_command") :
                    emitted'[i].room = registrant ]_vars

\* Two sessions registered one after the other and the vehicle was
\* reported; the first has disconnected, its handler has returned, and a
\* command has since been forwarded to the second, which is still the
\* registered bridge.
C35_Witness ==
    /\ \A t \in Threads : th[t].pc \notin {"disconnect_164", "disconnect_164_store"}
    /\ \E s \in earlier : sessions[s] = "closed"
    /\ bridge_disconnects = 0
    /\ usb_client_connected /\ usb_client_sid = registrant /\ vehicle_connected
    /\ sessions[registrant] = "open"
    /\ forwarded = 1
    /\ \E i \in Emitted(emitted, "vehicle_command") : emitted[i].room = registrant

\* C36: the two steps of usb_client_register write usb_client_connected and
\* usb_client_sid and nothing else of the state: vehicle_connected,
\* current_vehicle_id, web_clients, last_telemetry, commands_sent and
\* telemetry_received keep their values, so a vehicle reported through an
\* earlier bridge stays connected when a new bridge registers.
C36_RegisterFrame ==
    [][ /\ \A s \in Sids, data \in RegisterInputs :
              handle_usb_client_register_178(s, data) =>
                 /\ usb_client_connected'
                 /\ UNCHANGED <<usb_client_sid, vehicle_connected, current_vehicle_id,
                                web_clients, last_telemetry, commands_sent,
                                telemetry_received>>
        /\ \A t \in Threads :
              handle_usb_client_register_179(t) =>
                 /\ usb_client_sid' = th[t].sid
                 /\ UNCHANGED <<usb_client_connected, vehicle_connected,
                                current_vehicle_id, web_clients, last_telemetry,
                                commands_sent, telemetry_received>> ]_vars

\* A second session has just registered in the place of the bridge that
\* reported the vehicle, and the vehicle is still connected.
C36_Witness ==
    /\ handler = "usb_client_register"
    /\ \A t \in Threads : th[t] = Idle
    /\ earlier # {}
    /\ bridge_disconnects = 0
    /\ usb_client_connected /\ usb_client_sid = registrant
    /\ vehicle_connected /\ current_vehicle_id = "rc_car_001"

\* C37: after any sequence of connect_vehicle and disconnect_vehicle calls
\* the manager holds at most one adapter, and the active vehicle id is set
\* if and only if an adapter is held under exactly that id.
C37_OneAdapter ==
    /\ Cardinality(DOMAIN manager.adapters) <= 1
    /\ manager.active # NoVehicleId => DOMAIN manager.adapters = { manager.active }
    /\ manager.active = NoVehicleId => DOMAIN manager.adapters = {}

\* C38: connect_vehicle with an id that no loaded profile has returns False
\* and leaves the active vehicle and the adapters as they are; connect_vehicle
\* for a loaded profile whose connection mode is invalid, or whose adapter
\* fails to connect, returns False after the previously active vehicle has
\* been disconnected and removed, and leaves no active vehicle.
C38_FailedConnect ==
    [][ \A vehicle_id \in ConnectIds, connects \in BOOLEAN :
          VehicleManager_connect_vehicle(vehicle_id, connects) =>
             /\ vehicle_id \notin DOMAIN manager.vehicles =>
                   /\ ~manager'.result
                   /\ manager'.active = manager.active
                   /\ manager'.adapters = manager.adapters
             /\ ( /\ vehicle_id \in DOMAIN manager.vehicles
                  /\ \/ ~connects
                     \/ ConnectionOf(vehicle_id).preferred_mode \notin {"serial", "wifi"}
                     \/ /\ ConnectionOf(vehicle_id).preferred_mode = "wifi"
                        /\ ~ConnectionOf(vehicle_id).wifi_enabled ) =>
                   /\ ~manager'.result
                   /\ manager.active \notin DOMAIN manager'.adapters
                   /\ manager'.active = NoVehicleId ]_vars

\* The complete lines of a buffer, the part behind its last newline, and the
\* telemetry of its complete lines, in their order.
CompleteLines(buffer) ==
    LET parts == Split(buffer, "\n") IN SubSeq(parts, 1, Len(parts) - 1)
Partial(buffer) ==
    LET parts == Split(buffer, "\n") IN parts[Len(parts)]
IsTelemetry(got) == got # NoTelemetry
Telemetries(buffer) ==
    LET lines == CompleteLines(buffer)
    IN  SelectSeq([i \in 1..Len(lines) |-> Received(Strip(lines[i]))], IsTelemetry)

\* C39: a call of WiFiAdapter.receive_telemetry whose recv returns data
\* returns the first telemetry among the complete lines of the buffer and
\* the data, in their order, or None when there is none; what it leaves in
\* the buffer is an end of what it had, holding the telemetry lines behind
\* the returned one, in their order, and the trailing partial line.  A call
\* that receives nothing returns None and leaves the buffer as it is.  So no
\* complete telemetry line is lost, returned twice or overtaken.
C39_BufferedInOrder ==
    [][ \A data \in WifiChunks :
          WiFiAdapter_receive_telemetry(data) =>
             LET had == wifi_adapter.buffer \o data
                 telemetries == Telemetries(had)
             IN  IF ~wifi_adapter.connected \/ data = <<>>
                   THEN /\ wifi_adapter'.returned = NoTelemetry
                        /\ wifi_adapter'.buffer = wifi_adapter.buffer
                   ELSE /\ \E k \in 1..(Len(had) + 1) :
                              wifi_adapter'.buffer = SubSeq(had, k, Len(had))
                        /\ Partial(wifi_adapter'.buffer) = Partial(had)
                        /\ IF telemetries = <<>>
                             THEN /\ wifi_adapter'.returned = NoTelemetry
                                  /\ wifi_adapter'.last_telemetry
                                        = wifi_adapter.last_telemetry
                                  /\ Telemetries(wifi_adapter'.buffer) = <<>>
                             ELSE /\ wifi_adapter'.returned = telemetries[1]
                                  /\ wifi_adapter'.last_telemetry = telemetries[1]
                                  /\ Telemetries(wifi_adapter'.buffer)
                                        = Tail(telemetries) ]_vars

\* The second call has returned the second of two lines that arrived
\* together, of which the first call returned the first.
C39_Witness ==
    /\ device_steps = 2
    /\ wifi_adapter.returned = Received(SecondLine)
    /\ wifi_adapter.last_telemetry = Received(SecondLine)
    /\ wifi_adapter.buffer = << "\n" >>
    /\ line = << "\n" >>

====
